---- MODULE Spec2Model ----
(***************************************************************************)
(* A model of the reward-cycle signer of stacks-signer/src/signer.rs and   *)
(* of its store, stacks-signer/src/signerdb.rs.                            *)
(*                                                                         *)
(* The signer is one single-threaded actor: every action below is one call *)
(* of Signer::process_event, Signer::process_next_command or               *)
(* Signer::update_dkg, taken whole.  What the node, the bus and the        *)
(* threshold-signature library answer is drawn with \E from small sets.    *)
(* Besides the signer's fields, the state holds what the last call sent    *)
(* out (to the bus, to the node, to the result channel, to the signing     *)
(* round) and which call it was.                                           *)
(***************************************************************************)
EXTENDS Integers, Sequences, FiniteSets, TLC

(***************************************************************************)
(* Bounds of the model.                                                    *)
(***************************************************************************)
\* longest command queue the model lets grow
MaxQueue == 2

(***************************************************************************)
(* Option<T>: None is the empty sequence, Some(x) the one-element one.     *)
(***************************************************************************)
None == << >>
Some(x) == << x >>
IsSome(o) == o # None
Unwrap(o) == o[1]
UnwrapOr(o, d) == IF o = None THEN d ELSE o[1]

(***************************************************************************)
(* Signers, blocks, hashes and message bytes.                              *)
(***************************************************************************)
Signers == {"signer0", "signer1"}
signer_id == "signer0"

\* B1 is the block miners propose and coordinators ask to sign; B2 is a block
\* this signer never sees, so its hash is one the store never holds
Blocks == {"B1", "B2"}
SeenBlocks == {"B1"}
\* NakamotoBlockHeader::signer_signature_hash, injective on blocks
signer_signature_hash(block) == << "ssh", block >>
Hashes == {signer_signature_hash(b) : b \in Blocks}

BlockVote(h, rejected) == [signer_signature_hash |-> h, rejected |-> rejected]
Votes == {BlockVote(h, r) : h \in Hashes, r \in BOOLEAN}

\* the byte strings a packet or a round can carry
serialize_block(block) == << "block", block >>
serialize_vote(vote) == << "vote", vote.signer_signature_hash, vote.rejected >>
Junk == << "junk" >>
Bytes == {serialize_block(b) : b \in Blocks} \cup {serialize_vote(v) : v \in Votes} \cup {Junk}

\* read_next::<NakamotoBlock>(bytes).ok()
read_next_block(bytes) == IF bytes[1] = "block" THEN Some(bytes[2]) ELSE None
\* read_next::<NakamotoBlockVote>(bytes).ok()
read_next_vote(bytes) ==
    IF bytes[1] = "vote" THEN Some(BlockVote(bytes[2], bytes[3])) ELSE None

\* the reward cycle this signer is registered for
reward_cycle == 4

(***************************************************************************)
(* The signer_states table of SignerDb (signerdb.rs), and the state of the *)
(* library's signing round that is kept in it.  The state is opaque here:  *)
(* "fresh" is the one WSTSSigner::new builds, the others are the ones the  *)
(* library moves to.  save() gives the SignerState, which carries the      *)
(* signer's id, and load() gives the round's state back.                   *)
(***************************************************************************)
RoundStates == {"fresh", "r1"}
save(signer) == [id |-> signer_id, saved |-> signer]
load(signer_state) == signer_state.saved

\* serde_json text of a struct: its fields in declaration order, each with its name
Field(text, name) == text[CHOOSE i \in DOMAIN text : text[i][1] = name][2]

SignerState_to_string(signer_state) ==
    << << "id", signer_state.id >>, << "saved", signer_state.saved >> >>
SignerState_from_str(text) ==
    [id |-> Field(text, "id"), saved |-> Field(text, "saved")]

BlockInfo_to_string(block_info) ==
    << << "block", block_info.block >>, << "vote", block_info.vote >>,
       << "valid", block_info.valid >>, << "nonce_request", block_info.nonce_request >>,
       << "signed_over", block_info.signed_over >> >>
BlockInfo_from_str(text) ==
    [block |-> Field(text, "block"), vote |-> Field(text, "vote"),
     valid |-> Field(text, "valid"), nonce_request |-> Field(text, "nonce_request"),
     signed_over |-> Field(text, "signed_over")]

\* try_deserialize::<T>: the row, if there is one, read back with
\* serde_json::from_str as a T
try_deserialize(row, T) ==
    IF row = None THEN None
    ELSE IF T = "BlockInfo" THEN Some(BlockInfo_from_str(Unwrap(row)))
    ELSE Some(SignerState_from_str(Unwrap(row)))

StateKeys == {<< id, rc >> : id \in Signers, rc \in {reward_cycle, reward_cycle + 1}}
EmptyStates == [k \in StateKeys |-> None]
get_signer_state(states, id, rc) ==
    try_deserialize(states[<< id, rc >>], "SignerState")
insert_signer_state(states, rc, signer_state) ==
    LET serialized_state == SignerState_to_string(signer_state)
    IN  [states EXCEPT ![<< signer_state.id, rc >>] = Some(serialized_state)]
delete_signer_state(states, id, rc) == [states EXCEPT ![<< id, rc >>] = None]

(***************************************************************************)
(* BlockInfo (signer.rs) and the blocks table of SignerDb (signerdb.rs).   *)
(***************************************************************************)
NonceRequest(bytes) == [message |-> bytes]

BlockInfo_new(block) ==
    [block |-> block, vote |-> None, valid |-> None,
     nonce_request |-> None, signed_over |-> FALSE]

BlockInfo_new_with_request(block, nonce_request) ==
    [block |-> block, vote |-> None, valid |-> None,
     nonce_request |-> Some(nonce_request), signed_over |-> TRUE]

\* insert_block with INSERT OR IGNORE: a row already there is kept
insert_block_or_ignore(db, block_info) ==
    LET block_json == BlockInfo_to_string(block_info)
        hash == signer_signature_hash(block_info.block)
    IN  IF db[hash] # None THEN db ELSE [db EXCEPT ![hash] = Some(block_json)]

EmptyDb == [h \in Hashes |-> None]
block_lookup(db, h) == try_deserialize(db[h], "BlockInfo")
insert_block(db, block_info) ==
    LET block_json == BlockInfo_to_string(block_info)
        hash == signer_signature_hash(block_info.block)
    IN  [db EXCEPT ![hash] = Some(block_json)]
remove_block(db, h) == [db EXCEPT ![h] = None]

(***************************************************************************)
(* Commands, packets and what the signer sends.                            *)
(***************************************************************************)
Dkg == [type |-> "Dkg"]
Sign(block, is_taproot, merkle_root) ==
    [type |-> "Sign", block |-> block, is_taproot |-> is_taproot,
     merkle_root |-> merkle_root]

\* wsts Packet: the message, and whether Packet::verify accepts its signature
Packet(type, bytes, verified) ==
    [msg |-> [type |-> type, message |-> bytes], verified |-> verified]

\* messages written to the bus (StackerDB::send_message_with_retry)
DkgBeginMsg(dkg_id) == [kind |-> "Packet", type |-> "DkgBegin", dkg_id |-> dkg_id]
NonceRequestMsg(bytes) == [kind |-> "Packet", type |-> "NonceRequest", message |-> bytes]
SignerOutMsg == [kind |-> "Packet", type |-> "SignerOutbound"]
CoordinatorOutMsg == [kind |-> "Packet", type |-> "CoordinatorOutbound"]
BlockRejection(h, reason) ==
    [kind |-> "BlockRejection", signer_signature_hash |-> h, reason |-> reason]
BlockResponse(h, accepted) ==
    [kind |-> "BlockResponse", signer_signature_hash |-> h, accepted |-> accepted]
Transactions(txs) == [kind |-> "Transactions", txs |-> txs]

\* store_at_send: the blocks table as it was when each message was written
NoOutput == [stackerdb |-> << >>, store_at_send |-> << >>, node |-> << >>,
             mempool |-> << >>, res |-> << >>, signing_round |-> None]

Send(s, m) ==
    [s EXCEPT !.out.stackerdb = Append(@, m),
              !.out.store_at_send = Append(@, s.signer_db)]
submit_block_for_validation(s, block) == [s EXCEPT !.out.node = Append(@, block)]

(***************************************************************************)
(* Signer::finish_operation, Signer::update_operation.                     *)
(***************************************************************************)
\* the same, leaving the time of the last message as it is
finish_operation_keeping_time(s) == [s EXCEPT !.state = "Idle"]

finish_operation(s) ==
    [s EXCEPT !.state = "Idle", !.coordinator_selector.last_message_time = None]

update_operation(s) ==
    [s EXCEPT !.state = "OperationInProgress",
              !.coordinator_selector.last_message_time = Some("now")]

(***************************************************************************)
(* Signer::execute_command.  last_round is what get_last_round answers     *)
(* (<<"Err">>, or <<"Ok", round>> with round an Option), started whether   *)
(* the library's start_dkg_round / start_signing_round succeeds.           *)
(***************************************************************************)
\* the same without the check of the approved key
execute_dkg_with_key(s, last_round, started) ==
    IF last_round[1] = "Err" THEN s
    ELSE LET s1 == [s EXCEPT !.coordinator.current_dkg_id = UnwrapOr(last_round[2], 0)]
         IN  IF ~started THEN s1
             ELSE LET s2 == [s1 EXCEPT !.coordinator.current_dkg_id = @ + 1,
                                       !.coordinator.state = "DkgPublicGather"]
                  IN  update_operation(Send(s2, DkgBeginMsg(s2.coordinator.current_dkg_id)))

execute_dkg(s, last_round, started) ==
    IF IsSome(s.approved_aggregate_public_key) THEN s
    ELSE IF last_round[1] = "Err" THEN s
    ELSE LET s1 == [s EXCEPT !.coordinator.current_dkg_id = UnwrapOr(last_round[2], 0)]
         IN  IF ~started THEN s1
             ELSE LET s2 == [s1 EXCEPT !.coordinator.current_dkg_id = @ + 1,
                                       !.coordinator.state = "DkgPublicGather"]
                  IN  update_operation(Send(s2, DkgBeginMsg(s2.coordinator.current_dkg_id)))

\* the same without the check of signed_over
execute_sign_again(s, command, started) ==
    IF s.approved_aggregate_public_key = None THEN s
    ELSE LET h == signer_signature_hash(command.block)
             block_info == UnwrapOr(block_lookup(s.signer_db, h),
                                    BlockInfo_new(command.block))
         IN  IF ~started THEN s
             ELSE LET s1 == [s EXCEPT !.coordinator.state = "NonceGather"]
                      s2 == Send(s1, NonceRequestMsg(serialize_block(command.block)))
                      s3 == [s2 EXCEPT !.signer_db =
                                insert_block(@, [block_info EXCEPT !.signed_over = TRUE])]
                  IN  update_operation(s3)

execute_sign(s, command, started) ==
    IF s.approved_aggregate_public_key = None THEN s
    ELSE LET h == signer_signature_hash(command.block)
             block_info == UnwrapOr(block_lookup(s.signer_db, h),
                                    BlockInfo_new(command.block))
         IN  IF block_info.signed_over THEN s
             ELSE IF ~started THEN s
             ELSE LET s1 == [s EXCEPT !.coordinator.state = "NonceGather"]
                      s2 == Send(s1, NonceRequestMsg(serialize_block(command.block)))
                      s3 == [s2 EXCEPT !.signer_db =
                                insert_block(@, [block_info EXCEPT !.signed_over = TRUE])]
                  IN  update_operation(s3)

\* the same, reaching update_operation after every arm, aborted or not
execute_command_updating_always(s, command, last_round, started) ==
    update_operation(IF command.type = "Dkg" THEN execute_dkg(s, last_round, started)
                     ELSE execute_sign(s, command, started))

execute_command(s, command, last_round, started) ==
    IF command.type = "Dkg" THEN execute_dkg(s, last_round, started)
    ELSE execute_sign(s, command, started)

(***************************************************************************)
(* Signer::process_next_command.                                           *)
(***************************************************************************)
\* the same without the check of the signer's state
process_next_command_any_state(s, last_round, started) ==
    IF s.coordinator_selector.coordinator_id # signer_id THEN s
    ELSE IF s.commands # << >>
         THEN execute_command([s EXCEPT !.commands = Tail(@)], Head(s.commands),
                              last_round, started)
         ELSE s

process_next_command(s, last_round, started) ==
    IF s.state = "Idle"
    THEN IF s.coordinator_selector.coordinator_id # signer_id THEN s
         ELSE IF s.commands # << >>
              THEN execute_command([s EXCEPT !.commands = Tail(@)], Head(s.commands),
                                   last_round, started)
              ELSE s
    ELSE s

(***************************************************************************)
(* Signer::determine_vote: the BlockInfo with the vote cached, and the     *)
(* request with its message replaced by the serialized vote.               *)
(***************************************************************************)
\* the same with the vote the other way round
determine_vote_inverted(block_info, nonce_request) ==
    LET block_vote == BlockVote(signer_signature_hash(block_info.block),
                                UnwrapOr(block_info.valid, FALSE))
    IN  [block_info |-> [block_info EXCEPT !.vote = Some(block_vote)],
         nonce_request |-> [nonce_request EXCEPT !.message = serialize_vote(block_vote)]]

determine_vote(block_info, nonce_request) ==
    LET block_vote == BlockVote(signer_signature_hash(block_info.block),
                                ~UnwrapOr(block_info.valid, FALSE))
    IN  [block_info |-> [block_info EXCEPT !.vote = Some(block_vote)],
         nonce_request |-> [nonce_request EXCEPT !.message = serialize_vote(block_vote)]]

(***************************************************************************)
(* Signer::validate_signature_share_request and                            *)
(* Signer::validate_nonce_request: [s, request, ok].                       *)
(***************************************************************************)
\* the same, leaving the request's message as the coordinator sent it
validate_signature_share_request_as_sent(s, request) ==
    LET block_vote == read_next_vote(request.message)
    IN  IF block_vote = None THEN [s |-> s, request |-> request, ok |-> FALSE]
        ELSE LET found == block_lookup(s.signer_db, Unwrap(block_vote).signer_signature_hash)
             IN  IF found = None THEN [s |-> s, request |-> request, ok |-> FALSE]
                 ELSE IF Unwrap(found).vote = None
                      THEN [s |-> s, request |-> request, ok |-> FALSE]
                      ELSE [s |-> s, request |-> request, ok |-> TRUE]

\* the same, recording the vote of the request as the vote of the block
validate_signature_share_request_adopting(s, request) ==
    LET block_vote == read_next_vote(request.message)
    IN  IF block_vote = None THEN [s |-> s, request |-> request, ok |-> FALSE]
        ELSE LET found == block_lookup(s.signer_db, Unwrap(block_vote).signer_signature_hash)
             IN  IF found = None THEN [s |-> s, request |-> request, ok |-> FALSE]
                 ELSE IF Unwrap(found).vote = None
                      THEN [s |-> s, request |-> request, ok |-> FALSE]
                      ELSE [s |-> [s EXCEPT !.signer_db =
                                      insert_block(@, [Unwrap(found) EXCEPT
                                                          !.vote = block_vote])],
                            request |-> request, ok |-> TRUE]

validate_signature_share_request(s, request) ==
    LET block_vote == read_next_vote(request.message)
    IN  IF block_vote = None THEN [s |-> s, request |-> request, ok |-> FALSE]
        ELSE LET found == block_lookup(s.signer_db, Unwrap(block_vote).signer_signature_hash)
             IN  IF found = None THEN [s |-> s, request |-> request, ok |-> FALSE]
                 ELSE IF Unwrap(found).vote = None
                      THEN [s |-> s, request |-> request, ok |-> FALSE]
                      ELSE [s |-> s,
                            request |-> [request EXCEPT !.message =
                                            serialize_vote(Unwrap(Unwrap(found).vote))],
                            ok |-> TRUE]

validate_nonce_request(s, nonce_request) ==
    LET block == read_next_block(nonce_request.message)
    IN  IF block = None THEN [s |-> s, request |-> nonce_request, ok |-> FALSE]
        ELSE LET h == signer_signature_hash(Unwrap(block))
                 found == block_lookup(s.signer_db, h)
             IN  IF found = None
                 THEN LET block_info == BlockInfo_new_with_request(Unwrap(block), nonce_request)
                          s1 == [s EXCEPT !.signer_db = insert_block(@, block_info)]
                      IN  [s |-> submit_block_for_validation(s1, Unwrap(block)),
                           request |-> nonce_request, ok |-> FALSE]
                 ELSE IF Unwrap(found).valid = None
                      \* the request is set on the local copy only: nothing is stored
                      THEN [s |-> s, request |-> nonce_request, ok |-> FALSE]
                      ELSE LET dv == determine_vote(Unwrap(found), nonce_request)
                           IN  [s |-> [s EXCEPT !.signer_db = insert_block(@, dv.block_info)],
                                request |-> dv.nonce_request, ok |-> TRUE]

(***************************************************************************)
(* Signer::verify_packet: [s, packet], packet an Option.                   *)
(***************************************************************************)
verify_packet(s, packet) ==
    IF ~packet.verified THEN [s |-> s, packet |-> None]
    ELSE IF packet.msg.type = "SignatureShareRequest"
         THEN LET r == validate_signature_share_request(s, [message |-> packet.msg.message])
              IN  [s |-> r.s,
                   packet |-> IF r.ok
                              THEN Some([packet EXCEPT !.msg.message = r.request.message])
                              ELSE None]
    ELSE IF packet.msg.type = "NonceRequest"
         THEN LET r == validate_nonce_request(s, [message |-> packet.msg.message])
              IN  [s |-> r.s,
                   packet |-> IF r.ok
                              THEN Some([packet EXCEPT !.msg.message = r.request.message])
                              ELSE None]
    ELSE [s |-> s, packet |-> Some(packet)]

(***************************************************************************)
(* Operation results of the coordinator, and their processing.             *)
(* A Sign or SignError result carries what coordinator.get_message()       *)
(* returns when it is processed; a Dkg result carries what the node and    *)
(* the bus answer while the vote transaction is built.                     *)
(***************************************************************************)
\* the transactions of a block, and the ones a signer may expect in it
block_txs(block) == IF block = "B1" THEN {"tx1"} ELSE {}

\* Signer::process_signature
process_signature(s, result) ==
    LET block_vote == read_next_vote(result.message)
    IN  IF block_vote = None THEN s
        ELSE LET v == Unwrap(block_vote)
                 s1 == [s EXCEPT !.signer_db = remove_block(@, v.signer_signature_hash)]
             IN  Send(s1, BlockResponse(v.signer_signature_hash, ~v.rejected))

\* Signer::process_sign_error.  The argument of unwrap_or is evaluated
\* before unwrap_or is called, its early returns included.
process_sign_error(s, result) ==
    LET block_vote == read_next_vote(result.message)
    IN  IF block_vote = None THEN s
        ELSE LET found == block_lookup(s.signer_db, Unwrap(block_vote).signer_signature_hash)
             IN  IF found = None THEN s
                 ELSE LET block == UnwrapOr(read_next_block(result.message),
                                            Unwrap(found).block)
                      IN  Send(s, BlockRejection(signer_signature_hash(block), << "SignError" >>))

\* the same, submitting to the mempool in every epoch that broadcasts
broadcast_dkg_vote_mempool_too(s, epoch, signer_transactions, new_transaction, mempool_ok) ==
    IF IsSome(s.approved_aggregate_public_key) THEN s
    ELSE IF epoch >= 25
         THEN IF ~mempool_ok THEN s
              ELSE Send([s EXCEPT !.out.mempool = Append(@, new_transaction)],
                        Transactions(Append(signer_transactions, new_transaction)))
    ELSE s

\* Signer::broadcast_dkg_vote
broadcast_dkg_vote(s, epoch, signer_transactions, new_transaction, mempool_ok) ==
    IF IsSome(s.approved_aggregate_public_key) THEN s
    ELSE IF epoch >= 30
         THEN Send(s, Transactions(Append(signer_transactions, new_transaction)))
    ELSE IF epoch = 25
         THEN IF ~mempool_ok THEN s
              ELSE Send([s EXCEPT !.out.mempool = Append(@, new_transaction)],
                        Transactions(Append(signer_transactions, new_transaction)))
    ELSE s

\* u64 in the source; the model keeps U64Bits of it
U64Bits == 4
u64_MAX == 2 ^ U64Bits - 1
wrapping_add(a, b) == (a + b) % (2 ^ U64Bits)

\* Signer::process_dkg
process_dkg(s, result) ==
    LET signer_transactions == result.signer_transactions
        next_nonce == IF signer_transactions # << >>
                      THEN wrapping_add(Head(signer_transactions).nonce, 1)
                      ELSE result.account_nonce
        new_transaction == [round |-> s.coordinator.current_dkg_id, nonce |-> next_nonce]
    IN  IF ~result.built THEN s
        ELSE broadcast_dkg_vote(s, result.epoch, signer_transactions, new_transaction,
                                result.mempool_ok)

\* one arm of the match of Signer::process_operation_results
process_operation_result(s, result) ==
    IF result.type = "Sign" THEN process_signature(s, result)
    ELSE IF result.type = "SignTaproot" THEN s
    ELSE IF result.type = "Dkg" THEN process_dkg(s, result)
    ELSE IF result.type = "SignError" THEN process_sign_error(s, result)
    ELSE s

\* Signer::process_operation_results
RECURSIVE process_operation_results(_, _)
process_operation_results(s, operation_results) ==
    IF operation_results = << >> THEN s
    ELSE process_operation_results(process_operation_result(s, Head(operation_results)),
                                   Tail(operation_results))

\* Signer::send_operation_results
send_operation_results(s, operation_results) ==
    [s EXCEPT !.out.res = Append(@, operation_results)]

\* Signer::send_outbound_messages
RECURSIVE send_outbound_messages(_, _)
send_outbound_messages(s, outbound_messages) ==
    IF outbound_messages = << >> THEN s
    ELSE send_outbound_messages(Send(s, Head(outbound_messages)), Tail(outbound_messages))

(***************************************************************************)
(* Signer::handle_packets.  lib is what the two process_inbound_messages   *)
(* calls of the library return for these packets: the signing round's      *)
(* outbound packets, and the coordinator's new state, outbound packets and *)
(* operation results.                                                      *)
(***************************************************************************)
\* the same, keyed by the next reward cycle
save_signing_round_next_cycle(s) ==
    [s EXCEPT !.signer_states =
        insert_signer_state(@, reward_cycle + 1, save(s.signing_round))]

\* Signer::save_signing_round
save_signing_round(s) ==
    [s EXCEPT !.signer_states = insert_signer_state(@, reward_cycle, save(s.signing_round))]

\* the same, updating the operation whatever state the coordinator is in
handle_packets_any_coordinator_state(s, packets, lib) ==
    LET s1 == [s EXCEPT !.out.signing_round = Some(packets),
                        !.signing_round = lib.signer,
                        !.coordinator.state = lib.state]
        s2 == IF lib.operation_results # << >>
              THEN finish_operation(
                     send_operation_results(
                       process_operation_results(s1, lib.operation_results),
                       lib.operation_results))
              ELSE IF packets # << >>
                   THEN update_operation(s1)
                   ELSE s1
    IN  send_outbound_messages(
            send_outbound_messages(save_signing_round(s2), lib.signer_outbound),
            lib.coordinator_outbound)

handle_packets(s, packets, lib) ==
    LET s1 == [s EXCEPT !.out.signing_round = Some(packets),
                        !.signing_round = lib.signer,
                        !.coordinator.state = lib.state]
        s2 == IF lib.operation_results # << >>
              THEN finish_operation(
                     send_operation_results(
                       process_operation_results(s1, lib.operation_results),
                       lib.operation_results))
              ELSE IF packets # << >> /\ s1.coordinator.state # "Idle"
                   THEN update_operation(s1)
                   ELSE s1
    IN  send_outbound_messages(
            send_outbound_messages(save_signing_round(s2), lib.signer_outbound),
            lib.coordinator_outbound)

(***************************************************************************)
(* Signer::handle_signer_messages: the packets that pass verify_packet,    *)
(* in order, then handle_packets.                                          *)
(***************************************************************************)
RECURSIVE verify_packets(_, _, _)
verify_packets(s, messages, packets) ==
    IF messages = << >> THEN [s |-> s, packets |-> packets]
    ELSE LET m == Head(messages)
         IN  IF m.kind # "Packet" THEN verify_packets(s, Tail(messages), packets)
             ELSE LET r == verify_packet(s, m.packet)
                  IN  verify_packets(r.s, Tail(messages),
                                     IF r.packet = None THEN packets
                                     ELSE Append(packets, Unwrap(r.packet)))

handle_signer_messages(s, messages, lib) ==
    LET r == verify_packets(s, messages, << >>)
    IN  handle_packets(r.s, r.packets, lib)

(***************************************************************************)
(* Signer::handle_proposed_blocks.                                         *)
(***************************************************************************)
RECURSIVE handle_proposed_blocks(_, _)
handle_proposed_blocks(s, blocks) ==
    IF blocks = << >> THEN s
    ELSE LET s1 == [s EXCEPT !.signer_db = insert_block(@, BlockInfo_new(Head(blocks)))]
         IN  handle_proposed_blocks(submit_block_for_validation(s1, Head(blocks)),
                                    Tail(blocks))

(***************************************************************************)
(* Signer::verify_block_transactions: [s, is_valid].  expected is what     *)
(* get_expected_transactions returns: <<"Err">> or <<"Ok", txids>>.        *)
(***************************************************************************)
\* the same, with the rejection listing every expected transaction
verify_block_transactions_all_listed(s, block, expected) ==
    IF IsSome(s.approved_aggregate_public_key) THEN [s |-> s, is_valid |-> TRUE]
    ELSE IF expected[1] = "Ok"
         THEN LET missing_transactions == {tx \in expected[2] : tx \notin block_txs(block)}
                  is_valid == missing_transactions = {}
              IN  [s |-> IF is_valid THEN s
                         ELSE Send(s, BlockRejection(signer_signature_hash(block),
                                        << "MissingTransactions", expected[2] >>)),
                   is_valid |-> is_valid]
         ELSE [s |-> Send(s, BlockRejection(signer_signature_hash(block),
                                            << "ConnectivityIssues" >>)),
               is_valid |-> FALSE]

verify_block_transactions(s, block, expected) ==
    IF IsSome(s.approved_aggregate_public_key) THEN [s |-> s, is_valid |-> TRUE]
    ELSE IF expected[1] = "Ok"
         THEN LET missing_transactions == {tx \in expected[2] : tx \notin block_txs(block)}
                  is_valid == missing_transactions = {}
              IN  [s |-> IF is_valid THEN s
                         ELSE Send(s, BlockRejection(signer_signature_hash(block),
                                        << "MissingTransactions", missing_transactions >>)),
                   is_valid |-> is_valid]
         ELSE [s |-> Send(s, BlockRejection(signer_signature_hash(block),
                                            << "ConnectivityIssues" >>)),
               is_valid |-> FALSE]

(***************************************************************************)
(* Signer::handle_block_validate_response.                                 *)
(***************************************************************************)
\* lines 451-489: the part after the match on the response
\* the same without the check of signed_over
respond_to_validation_again(s, validated, lib) ==
    LET s1 == IF IsSome(validated.nonce_request)
              THEN LET dv == determine_vote([validated EXCEPT !.nonce_request = None],
                                            Unwrap(validated.nonce_request))
                       packet == Packet("NonceRequest", dv.nonce_request.message, TRUE)
                   IN  [s |-> handle_packets(s, << packet >>, lib),
                        block_info |-> dv.block_info]
              ELSE IF UnwrapOr(validated.valid, FALSE)
                      /\ s.coordinator_selector.coordinator_id = signer_id
                   THEN [s |-> [s EXCEPT !.commands =
                                   Append(@, Sign(validated.block, FALSE, None))],
                         block_info |-> validated]
                   ELSE [s |-> s, block_info |-> validated]
    IN  [s1.s EXCEPT !.signer_db = insert_block(@, s1.block_info)]

respond_to_validation(s, validated, lib) ==
    LET s1 == IF IsSome(validated.nonce_request)
              THEN LET dv == determine_vote([validated EXCEPT !.nonce_request = None],
                                            Unwrap(validated.nonce_request))
                       packet == Packet("NonceRequest", dv.nonce_request.message, TRUE)
                   IN  [s |-> handle_packets(s, << packet >>, lib),
                        block_info |-> dv.block_info]
              ELSE IF UnwrapOr(validated.valid, FALSE)
                      /\ ~validated.signed_over
                      /\ s.coordinator_selector.coordinator_id = signer_id
                   THEN [s |-> [s EXCEPT !.commands =
                                   Append(@, Sign(validated.block, FALSE, None))],
                         block_info |-> validated]
                   ELSE [s |-> s, block_info |-> validated]
    IN  [s1.s EXCEPT !.signer_db = insert_block(@, s1.block_info)]

\* the same, with the node's rejection kept to the signer
handle_block_validate_response_quiet(s, response, expected, lib) ==
    LET found == block_lookup(s.signer_db, response.signer_signature_hash)
    IN  IF found = None THEN s
        ELSE IF response.kind = "Ok"
        THEN LET v == verify_block_transactions(s, Unwrap(found).block, expected)
                 block_info == [Unwrap(found) EXCEPT !.valid = Some(v.is_valid)]
                 s1 == [v.s EXCEPT !.signer_db = insert_block(@, block_info)]
             IN  respond_to_validation(s1, block_info, lib)
        ELSE LET block_info == [Unwrap(found) EXCEPT !.valid = Some(FALSE)]
             IN  respond_to_validation(s, block_info, lib)

handle_block_validate_response(s, response, expected, lib) ==
    LET found == block_lookup(s.signer_db, response.signer_signature_hash)
    IN  IF found = None THEN s
        ELSE IF response.kind = "Ok"
        THEN LET v == verify_block_transactions(s, Unwrap(found).block, expected)
                 block_info == [Unwrap(found) EXCEPT !.valid = Some(v.is_valid)]
                 s1 == [v.s EXCEPT !.signer_db = insert_block(@, block_info)]
             IN  respond_to_validation(s1, block_info, lib)
        ELSE LET block_info == [Unwrap(found) EXCEPT !.valid = Some(FALSE)]
                 s1 == Send(s, BlockRejection(response.signer_signature_hash,
                                              << "ValidationFailed" >>))
             IN  respond_to_validation(s1, block_info, lib)

(***************************************************************************)
(* Signer::update_dkg.  approved is what get_approved_aggregate_key        *)
(* answers (<<"Err">> or <<"Ok", key>>, key an Option),                    *)
(* aggregate_public_key the key the library's coordinator holds,           *)
(* old_transactions the vote transactions of the signer's bus slot that    *)
(* are still valid against its account nonce, voted what                   *)
(* get_vote_for_aggregate_public_key answers ("Err", "Some" or "None").    *)
(* The bus and the node are only asked by the idle coordinator without an  *)
(* approved key, the node for the vote only when no vote is pending.       *)
(***************************************************************************)
\* the loop over old_transactions: a vote for the coordinator's key in its
\* current round is pending
pending_vote(s, aggregate_public_key, old_transactions) ==
    \E i \in DOMAIN old_transactions :
        /\ Some(old_transactions[i].aggregate_key) = aggregate_public_key
        /\ old_transactions[i].voting_round = s.coordinator.current_dkg_id

\* the same, queueing the Dkg command whatever the head of the queue is
update_dkg_queueing_again(s, approved, aggregate_public_key, old_transactions, voted) ==
    IF approved[1] = "Err" THEN s
    ELSE LET s1 == [s EXCEPT !.approved_aggregate_public_key = approved[2]]
         IN  IF IsSome(approved[2]) THEN s1
             ELSE IF s1.coordinator_selector.coordinator_id = signer_id /\ s1.state = "Idle"
                  THEN IF pending_vote(s1, aggregate_public_key, old_transactions) THEN s1
                       ELSE IF voted # "None" THEN s1
                       ELSE [s1 EXCEPT !.commands = << Dkg >> \o @]
                  ELSE s1

update_dkg(s, approved, aggregate_public_key, old_transactions, voted) ==
    IF approved[1] = "Err" THEN s
    ELSE LET s1 == [s EXCEPT !.approved_aggregate_public_key = approved[2]]
         IN  IF IsSome(approved[2]) THEN s1
             ELSE IF s1.coordinator_selector.coordinator_id = signer_id /\ s1.state = "Idle"
                  THEN IF pending_vote(s1, aggregate_public_key, old_transactions) THEN s1
                       ELSE IF voted # "None" THEN s1
                       ELSE IF s1.commands = << >> \/ Head(s1.commands) # Dkg
                            THEN [s1 EXCEPT !.commands = << Dkg >> \o @]
                            ELSE s1
                  ELSE s1

(***************************************************************************)
(* Signer::process_event.                                                  *)
(***************************************************************************)
\* StackerDB::get_signer_set
get_signer_set == reward_cycle % 2

\* the same, handling the messages of any signer set
process_event_any_set(s, event, current_reward_cycle, expected, lib) ==
    IF event = None THEN s
    ELSE LET e == Unwrap(event)
         IN  IF e.type = "BlockValidationResponse"
             THEN handle_block_validate_response(s, e.response, expected, lib)
             ELSE IF e.type = "SignerMessages"
             THEN handle_signer_messages(s, e.messages,
                      [lib EXCEPT !.state = s.coordinator.state]
                          @@ [signer |-> s.signing_round])
             ELSE IF e.type = "ProposedBlocks"
             THEN IF current_reward_cycle # reward_cycle THEN s
                  ELSE handle_proposed_blocks(s, e.blocks)
             ELSE s

process_event(s, event, current_reward_cycle, expected, lib) ==
    IF event = None THEN s
    ELSE LET e == Unwrap(event)
         IN  IF e.type = "BlockValidationResponse"
             THEN handle_block_validate_response(s, e.response, expected, lib)
             ELSE IF e.type = "SignerMessages"
             THEN IF e.signer_set # get_signer_set THEN s
                  ELSE handle_signer_messages(s, e.messages, lib)
             ELSE IF e.type = "ProposedBlocks"
             THEN IF current_reward_cycle # reward_cycle THEN s
                  ELSE handle_proposed_blocks(s, e.blocks)
             ELSE s

(***************************************************************************)
(* What the environment can hand to the signer.                            *)
(***************************************************************************)
NR(bytes, verified) == [kind |-> "Packet", packet |-> Packet("NonceRequest", bytes, verified)]
SSR(bytes, verified) ==
    [kind |-> "Packet", packet |-> Packet("SignatureShareRequest", bytes, verified)]
Other(type) == [kind |-> "Packet", packet |-> Packet(type, Junk, TRUE)]
VoteBytes(block, rejected) == serialize_vote(BlockVote(signer_signature_hash(block), rejected))

\* the messages of a SignerMessages event
SignerMessagePool ==
    {NR(serialize_block("B1"), TRUE), NR(Junk, TRUE),
     SSR(VoteBytes("B1", FALSE), TRUE), SSR(VoteBytes("B1", TRUE), TRUE),
     SSR(VoteBytes("B2", FALSE), TRUE), SSR(Junk, TRUE),
     Other("DkgBegin"), Other("DkgEnd"), Other("SignatureShareResponse"),
     NR(serialize_block("B1"), FALSE), SSR(VoteBytes("B1", FALSE), FALSE),
     [kind |-> "BlockResponse"]}

\* the batches of a SignerMessages event for this signer's set
MessageBatches ==
    {<< >>} \cup {<< m >> : m \in SignerMessagePool}
    \cup {<< NR(serialize_block("B1"), TRUE), SSR(VoteBytes("B1", FALSE), TRUE) >>,
          << SSR(VoteBytes("B1", TRUE), TRUE), NR(serialize_block("B1"), TRUE) >>}

\* the batches of a SignerMessages event for the other signer set
OtherSetBatches == {<< >>, << NR(serialize_block("B1"), TRUE) >>}

\* the batches of a ProposedBlocks event
BlockBatches == {<< >>, << "B1" >>, << "B1", "B1" >>}

\* what coordinator.get_message() can hold when a signing round ends
RoundMessages ==
    {VoteBytes("B1", FALSE), VoteBytes("B1", TRUE), VoteBytes("B2", FALSE),
     serialize_block("B1"), Junk}

\* the voting rounds the node reports; the origin nonces of the transactions
\* the bus slot holds (they may be other signers' transactions, each kept
\* when valid against its own origin's nonce); this signer's account nonces
Rounds == {0}
Nonces == {0, u64_MAX}
AccountNonces == {0, 2}

\* what the node and the bus answer while a DKG result is processed
DkgResults ==
    {[type |-> "Dkg", epoch |-> e, account_nonce |-> a, signer_transactions |-> txs,
      built |-> TRUE, mempool_ok |-> TRUE] :
        e \in {24, 25, 30}, a \in AccountNonces,
        txs \in {<< >>} \cup {<< [round |-> 0, nonce |-> n] >> : n \in Nonces}}
    \cup
    {[type |-> "Dkg", epoch |-> 25, account_nonce |-> 0, signer_transactions |-> << >>,
      built |-> b, mempool_ok |-> ~b] : b \in BOOLEAN}

HasType(packets, types) == \E i \in DOMAIN packets : packets[i].msg.type \in types

\* The rounds the library's coordinator can end on these packets, each with the
\* coordinator state it leaves.  A round succeeds on the packet that completes
\* it; it can fail (a timeout is checked on every call) on any batch.
RoundEnds(cstate, packets) ==
    IF cstate = "DkgPublicGather"
    THEN {[state |-> "Idle", result |-> r] :
             r \in IF HasType(packets, {"DkgEnd"}) THEN DkgResults ELSE {}}
         \cup {[state |-> st, result |-> [type |-> "DkgError"]] : st \in {"Idle", cstate}}
    ELSE IF cstate = "NonceGather"
    THEN {[state |-> "Idle", result |-> r] :
             r \in IF HasType(packets, {"SignatureShareResponse"})
                   THEN {[type |-> "Sign", message |-> m] : m \in RoundMessages}
                        \cup {[type |-> "SignTaproot"]}
                   ELSE {}}
         \cup {[state |-> st, result |-> [type |-> "SignError", message |-> m]] :
                  st \in {"Idle", cstate},
                  m \in {VoteBytes("B1", FALSE), VoteBytes("B2", FALSE), serialize_block("B1")}}
    ELSE {}

\* the coordinator states an idle coordinator can be moved to by these packets
StartedBy(packets) ==
    {"Idle"}
    \cup (IF HasType(packets, {"DkgBegin"}) THEN {"DkgPublicGather"} ELSE {})
    \cup (IF HasType(packets, {"NonceRequest"}) THEN {"NonceGather"} ELSE {})

\* Everything the two process_inbound_messages calls can return.  The signing
\* round answers a batch that holds a request; the coordinator sends a packet
\* when it moves on.
LibOutcomes(cstate, packets) ==
    LET so == IF HasType(packets, {"DkgBegin", "NonceRequest", "SignatureShareRequest"})
              THEN << SignerOutMsg >> ELSE << >>
    IN  {[state |-> st, operation_results |-> << >>, signer_outbound |-> so,
          coordinator_outbound |-> IF st # cstate THEN << CoordinatorOutMsg >> ELSE << >>] :
            st \in (IF cstate = "Idle" THEN StartedBy(packets) ELSE {cstate})}
        \cup
        {[state |-> cstate, operation_results |-> << >>, signer_outbound |-> so,
          coordinator_outbound |-> << CoordinatorOutMsg >>] :
            x \in IF cstate # "Idle" /\ packets # << >> THEN {0} ELSE {}}
        \cup
        {[state |-> e.state, operation_results |-> << e.result >>,
          signer_outbound |-> so, coordinator_outbound |-> << >>] :
            e \in RoundEnds(cstate, packets)}

NoLib == [state |-> "Idle", operation_results |-> << >>,
          signer_outbound |-> << >>, coordinator_outbound |-> << >>]

\* the same outcomes, each with a state the signing round is left in
RoundMoves(outcomes, rounds) ==
    {[state |-> l.state, operation_results |-> l.operation_results,
      signer_outbound |-> l.signer_outbound,
      coordinator_outbound |-> l.coordinator_outbound, signer |-> x] :
        l \in outcomes, x \in rounds}

ExpectedPool ==
    {<< "Err" >>, << "Ok", {} >>, << "Ok", {"tx1"} >>, << "Ok", {"tx1", "tx2"} >>}

\* what the signer's bus slot holds of its own votes when update_dkg looks
OldTransactions ==
    {<< >>} \cup {<< [aggregate_key |-> "key", voting_round |-> r] >> : r \in {0, 1}}

LastRounds == {<< "Err" >>, << "Ok", None >>} \cup {<< "Ok", Some(r) >> : r \in Rounds}

(***************************************************************************)
(* The state.                                                              *)
(***************************************************************************)
VARIABLES
    signer_db,                      \* the blocks table
    state,                          \* Signer.state
    commands,                       \* Signer.commands
    coordinator,                    \* the library coordinator: state, current_dkg_id
    coordinator_selector,           \* coordinator_id, last_message_time
    approved_aggregate_public_key,  \* Signer.approved_aggregate_public_key
    signing_round,                  \* the state of the library's signing round
    signer_states,                  \* the signer_states table
    out,                            \* what the last call sent out
    ev                              \* the last call and its input

vars == << signer_db, state, commands, coordinator, coordinator_selector,
           approved_aggregate_public_key, signing_round, signer_states, out, ev >>

\* the signer as one record, with nothing sent yet
Self ==
    [signer_db |-> signer_db, state |-> state, commands |-> commands,
     coordinator |-> coordinator, coordinator_selector |-> coordinator_selector,
     approved_aggregate_public_key |-> approved_aggregate_public_key,
     signing_round |-> signing_round, signer_states |-> signer_states,
     out |-> NoOutput]

\* between calls nothing is recorded as sent
Between == [call |-> "none"]

Become(s) ==
    /\ ev = Between
    /\ Len(s.commands) <= MaxQueue
    /\ signer_db' = s.signer_db
    /\ state' = s.state
    /\ commands' = s.commands
    /\ coordinator' = s.coordinator
    /\ coordinator_selector' = s.coordinator_selector
    /\ approved_aggregate_public_key' = s.approved_aggregate_public_key
    /\ signing_round' = s.signing_round
    /\ signer_states' = s.signer_states
    /\ out' = s.out

\* impl From<SignerConfig> for Signer: the signer built on a store, with the
\* coordinator its selector picks first
From_SignerConfig(db, states, coordinator_id) ==
    LET stored == get_signer_state(states, signer_id, reward_cycle)
    IN  [signer_db |-> db,
         signer_states |-> states,
         signing_round |-> IF stored # None THEN load(Unwrap(stored)) ELSE "fresh",
         state |-> "Idle",
         commands |-> << >>,
         coordinator |-> [state |-> "Idle", current_dkg_id |-> 0],
         coordinator_selector |-> [coordinator_id |-> coordinator_id,
                                   last_message_time |-> None],
         approved_aggregate_public_key |-> None,
         out |-> NoOutput]

Starts(s) ==
    /\ signer_db = s.signer_db
    /\ state = s.state
    /\ commands = s.commands
    /\ coordinator = s.coordinator
    /\ coordinator_selector = s.coordinator_selector
    /\ approved_aggregate_public_key = s.approved_aggregate_public_key
    /\ signing_round = s.signing_round
    /\ signer_states = s.signer_states
    /\ out = s.out
    /\ ev = [call |-> "new"]

\* The signer is built on the store of an earlier run of its own that left no
\* block behind and saved its signing round as it was built.
Init ==
    \E c \in Signers :
        Starts(From_SignerConfig(EmptyDb,
                                 insert_signer_state(EmptyStates, reward_cycle, save("fresh")),
                                 c))

(***************************************************************************)
(* The calls.                                                              *)
(***************************************************************************)
ProposedBlocksEvent ==
    \E current \in {reward_cycle, reward_cycle + 1},
       blocks \in BlockBatches :
        /\ current # reward_cycle => blocks = << "B1" >>
        /\
           LET event == [type |-> "ProposedBlocks", blocks |-> blocks]
           IN  /\ Become(process_event(Self, Some(event), current, << "Err" >>, NoLib))
               /\ ev' = [call |-> "process_event", event |-> event,
                         results |-> << >>, current_reward_cycle |-> current]

\* rounds: the states the library may leave the signing round in
BlockValidationResponseEventWith(rounds) ==
    \E kind \in {"Ok", "Reject"}, h \in Hashes :
        LET event == [type |-> "BlockValidationResponse",
                      response |-> [kind |-> kind, signer_signature_hash |-> h]]
            found == block_lookup(signer_db, h)
            replayed == found # None /\ IsSome(Unwrap(found).nonce_request)
        IN  \E expected \in (IF kind = "Ok" /\ found # None
                             THEN ExpectedPool ELSE {<< "Err" >>}),
               lib \in (IF replayed
                        THEN RoundMoves(LibOutcomes(coordinator.state,
                                          << Packet("NonceRequest", Junk, TRUE) >>),
                                        rounds)
                        ELSE {NoLib}) :
                /\ Become(process_event(Self, Some(event), reward_cycle, expected, lib))
                /\ ev' = [call |-> "process_event", event |-> event,
                          results |-> lib.operation_results, expected |-> expected]

BlockValidationResponseEvent == BlockValidationResponseEventWith({signing_round})

\* batches: the batches of an event for this signer's set
SignerMessagesEventWith(batches, rounds) ==
    \E signer_set \in {0, 1} :
      \E messages \in (IF signer_set = get_signer_set THEN batches
                       ELSE OtherSetBatches) :
        LET event == [type |-> "SignerMessages", signer_set |-> signer_set,
                      messages |-> messages]
            packets == verify_packets(Self, messages, << >>).packets
        IN  \E lib \in (IF signer_set = get_signer_set
                        THEN RoundMoves(LibOutcomes(coordinator.state, packets), rounds)
                        ELSE {NoLib}) :
                /\ Become(process_event(Self, Some(event), reward_cycle, << "Err" >>, lib))
                /\ ev' = [call |-> "process_event", event |-> event,
                          results |-> lib.operation_results]

SignerMessagesEvent == SignerMessagesEventWith(MessageBatches, {signing_round})

StatusCheckEvent ==
    LET event == [type |-> "StatusCheck"]
    IN  /\ Become(process_event(Self, Some(event), reward_cycle, << "Err" >>, NoLib))
        /\ ev' = [call |-> "process_event", event |-> event, results |-> << >>]

NoEvent ==
    /\ Become(process_event(Self, None, reward_cycle, << "Err" >>, NoLib))
    /\ ev' = [call |-> "process_event", event |-> [type |-> "None"], results |-> << >>]

ProcessNextCommand ==
    LET runs == state = "Idle" /\ coordinator_selector.coordinator_id = signer_id
                /\ commands # << >>
    IN  \E last_round \in (IF runs /\ Head(commands).type = "Dkg"
                           THEN LastRounds ELSE {<< "Err" >>}),
           started \in (IF runs THEN BOOLEAN ELSE {FALSE}) :
            /\ Become(process_next_command(Self, last_round, started))
            /\ ev' = [call |-> "process_next_command",
                      command |-> IF runs THEN Some(Head(commands)) ELSE None,
                      last_round |-> last_round, started |-> started]

UpdateDkg ==
    \E approved \in {<< "Err" >>, << "Ok", None >>, << "Ok", Some("key") >>} :
        LET looks == /\ approved = << "Ok", None >>
                     /\ coordinator_selector.coordinator_id = signer_id
                     /\ state = "Idle"
        IN  \E aggregate_public_key \in (IF looks THEN {None, Some("key")} ELSE {None}),
               old_transactions \in (IF looks THEN OldTransactions ELSE {<< >>}) :
              \E voted \in (IF looks /\ ~pending_vote(Self, aggregate_public_key,
                                                       old_transactions)
                             THEN {"Err", "Some", "None"} ELSE {"NotAsked"}) :
                /\ Become(update_dkg(Self, approved, aggregate_public_key,
                                     old_transactions, voted))
                /\ ev' = [call |-> "update_dkg", approved |-> approved,
                          aggregate_public_key |-> aggregate_public_key,
                          old_transactions |-> old_transactions, voted |-> voted]

\* the run loop queues a command it was handed
QueueCommand ==
    \E command \in {Dkg} \cup {Sign(b, FALSE, None) : b \in SeenBlocks} :
        /\ Become([Self EXCEPT !.commands = Append(@, command)])
        /\ ev' = [call |-> "queue_command", command |-> command]

\* the run loop's coordinator selector picks the coordinator again
RefreshCoordinator ==
    \E c \in Signers :
        /\ c # coordinator_selector.coordinator_id
        /\ Become([Self EXCEPT !.coordinator_selector.coordinator_id = c])
        /\ ev' = [call |-> "refresh_coordinator"]

\* the call returns to the run loop
Return ==
    /\ ev # Between
    /\ ev' = Between
    /\ out' = NoOutput
    /\ UNCHANGED << signer_db, state, commands, coordinator, coordinator_selector,
                    approved_aggregate_public_key, signing_round, signer_states >>

Next ==
    \/ Return
    \/ ProposedBlocksEvent
    \/ BlockValidationResponseEvent
    \/ SignerMessagesEvent
    \/ StatusCheckEvent
    \/ NoEvent
    \/ ProcessNextCommand
    \/ UpdateDkg
    \/ QueueCommand
    \/ RefreshCoordinator

Spec == Init /\ [][Next]_vars

\* The run loop keeps running: a call returns, an iteration without an event
\* comes, the next command is tried.  Nothing makes the node, the miners or
\* the other signers send anything.
RunLoop == Return \/ NoEvent \/ ProcessNextCommand
FairSpec == Spec /\ WF_vars(RunLoop)

(***************************************************************************)
(* The signer and its store over several runs.  The first signer is built  *)
(* on an empty store; the library moves the signing round as it likes; a   *)
(* later signer is built on the store the earlier one left.                *)
(***************************************************************************)
PersistBatches ==
    {<< >>, << NR(serialize_block("B1"), TRUE) >>, << Other("DkgBegin") >>,
     << Other("DkgEnd") >>}

PersistInit ==
    \E c \in Signers : Starts(From_SignerConfig(EmptyDb, EmptyStates, c))

Restart ==
    \E c \in Signers :
        /\ Become(From_SignerConfig(signer_db, signer_states, c))
        /\ ev' = [call |-> "new"]

PersistNext ==
    \/ Return
    \/ ProposedBlocksEvent
    \/ BlockValidationResponseEventWith(RoundStates)
    \/ SignerMessagesEventWith(PersistBatches, RoundStates)
    \/ Restart

PersistSpec == PersistInit /\ [][PersistNext]_vars

(***************************************************************************)
(* The store on its own: the operations of SignerDb applied in any order   *)
(* to any of the values below, the signer's other fields left as built.    *)
(***************************************************************************)
BlockInfoPool ==
    UNION {{BlockInfo_new(b),
            BlockInfo_new_with_request(b, NonceRequest(serialize_block(b))),
            [block |-> b, vote |-> Some(BlockVote(signer_signature_hash(b), FALSE)),
             valid |-> Some(TRUE), nonce_request |-> None, signed_over |-> TRUE]} :
           b \in Blocks}
SignerStatePool == {[id |-> id, saved |-> r] : id \in Signers, r \in RoundStates}

StoreInit == Starts(From_SignerConfig(EmptyDb, EmptyStates, signer_id))

StoreRest ==
    UNCHANGED << state, commands, coordinator, coordinator_selector,
                 approved_aggregate_public_key, signing_round, out >>

InsertBlock ==
    \E block_info \in BlockInfoPool :
        /\ signer_db' = insert_block(signer_db, block_info)
        /\ ev' = [call |-> "insert_block", block_info |-> block_info]
        /\ UNCHANGED signer_states
        /\ StoreRest

RemoveBlock ==
    \E hash \in Hashes :
        /\ signer_db' = remove_block(signer_db, hash)
        /\ ev' = [call |-> "remove_block", hash |-> hash]
        /\ UNCHANGED signer_states
        /\ StoreRest

BlockLookup ==
    \E hash \in Hashes :
        /\ ev' = [call |-> "block_lookup", hash |-> hash,
                  result |-> block_lookup(signer_db, hash)]
        /\ UNCHANGED << signer_db, signer_states >>
        /\ StoreRest

InsertSignerState ==
    \E rc \in {reward_cycle, reward_cycle + 1}, signer_state \in SignerStatePool :
        /\ signer_states' = insert_signer_state(signer_states, rc, signer_state)
        /\ ev' = [call |-> "insert_signer_state", reward_cycle |-> rc,
                  signer_state |-> signer_state]
        /\ UNCHANGED signer_db
        /\ StoreRest

DeleteSignerState ==
    \E key \in StateKeys :
        /\ signer_states' = delete_signer_state(signer_states, key[1], key[2])
        /\ ev' = [call |-> "delete_signer_state", key |-> key]
        /\ UNCHANGED signer_db
        /\ StoreRest

GetSignerState ==
    \E key \in StateKeys :
        /\ ev' = [call |-> "get_signer_state", key |-> key,
                  result |-> get_signer_state(signer_states, key[1], key[2])]
        /\ UNCHANGED << signer_db, signer_states >>
        /\ StoreRest

StoreNext ==
    \/ InsertBlock
    \/ RemoveBlock
    \/ BlockLookup
    \/ InsertSignerState
    \/ DeleteSignerState
    \/ GetSignerState

StoreSpec == StoreInit /\ [][StoreNext]_vars

(***************************************************************************)
(* The burn distribution (chainstate/burn/distribution.rs).  Uint256 is    *)
(* kept at U256Bits, wider than u64 as in the source; Uint512 holds every  *)
(* product of a Uint256 and a burn total.                                  *)
(***************************************************************************)
U256Bits == 8
MaxCommits == 3

Uint256_zero == 0
Uint256_max == 2 ^ U256Bits - 1
\* Uint512 arithmetic, and Uint512::to_uint256, which keeps the low half
Uint512_mul(a, b) == (a * b) % (2 ^ (2 * U256Bits))
Uint512_div(a, b) == a \div b
to_uint256(a) == a % (2 ^ U256Bits)

\* Hash160::from_sha256 of a block header hash; ECVRF_public_key_to_hex
Hash160_from_sha256(block_header_hash) == << "hash160", block_header_hash >>
ECVRF_public_key_to_hex(public_key) == << "hex", public_key >>

\* the u128 accumulation of get_total_burns, wrapping as a release build does
RECURSIVE fold_burns(_)
fold_burns(burn_dist) ==
    IF burn_dist = << >> THEN 0
    ELSE (Head(burn_dist).burns + fold_burns(Tail(burn_dist))) % (2 ^ (2 * U64Bits))

\* the same, failing only above u64::MAX
get_total_burns_above(burn_dist) ==
    LET block_burn_total_u128 == fold_burns(burn_dist)
    IN  IF block_burn_total_u128 > u64_MAX THEN None
        ELSE Some(block_burn_total_u128)

\* BurnSamplePoint::get_total_burns
get_total_burns(burn_dist) ==
    LET block_burn_total_u128 == fold_burns(burn_dist)
    IN  IF block_burn_total_u128 >= u64_MAX THEN None
        ELSE Some(block_burn_total_u128)

Panic == [panicked |-> TRUE, burn_sample |-> << >>]
Returned(burn_sample) == [panicked |-> FALSE, burn_sample |-> burn_sample]

\* the same, each range as wide as its own share of the burns rounded down
make_sortition_ranges_by_width(burn_sample) ==
    IF Len(burn_sample) = 0 THEN Returned(burn_sample)
    ELSE IF Len(burn_sample) = 1
    THEN Returned(<< [burn_sample[1] EXCEPT !.range_start = Uint256_zero,
                                            !.range_end = Uint256_max] >>)
    ELSE LET total == get_total_burns(burn_sample)
             width(i) == to_uint256(Uint512_div(Uint512_mul(Uint256_max,
                                                            burn_sample[i].burns),
                                                Unwrap(total)))
             RECURSIVE end(_)
             end(i) == IF i = 0 THEN 0 ELSE end(i - 1) + width(i)
         IN  IF total = None \/ total = Some(0) THEN Panic
             ELSE Returned([i \in DOMAIN burn_sample |->
                     [burn_sample[i] EXCEPT !.range_start = end(i - 1),
                                            !.range_end = end(i)]])

\* the same, dividing the burns by the total before scaling
make_sortition_ranges_share_first(burn_sample) ==
    IF Len(burn_sample) = 0 THEN Returned(burn_sample)
    ELSE IF Len(burn_sample) = 1
    THEN Returned(<< [burn_sample[1] EXCEPT !.range_start = Uint256_zero,
                                            !.range_end = Uint256_max] >>)
    ELSE LET total == get_total_burns(burn_sample)
             burn_acc(i) == fold_burns(SubSeq(burn_sample, 1, i))
             end(i) == to_uint256(Uint512_mul(Uint256_max,
                                              Uint512_div(burn_acc(i), Unwrap(total))))
         IN  IF total = None \/ total = Some(0) THEN Panic
             ELSE Returned([i \in DOMAIN burn_sample |->
                     [burn_sample[i] EXCEPT
                         !.range_start = IF i = 1 THEN Uint256_zero ELSE end(i - 1),
                         !.range_end = end(i)]])

\* the same, multiplying in 256 bits
make_sortition_ranges_in_uint256(burn_sample) ==
    IF Len(burn_sample) = 0 THEN Returned(burn_sample)
    ELSE IF Len(burn_sample) = 1
    THEN Returned(<< [burn_sample[1] EXCEPT !.range_start = Uint256_zero,
                                            !.range_end = Uint256_max] >>)
    ELSE LET total == get_total_burns(burn_sample)
             burn_acc(i) == fold_burns(SubSeq(burn_sample, 1, i))
             end(i) == to_uint256(Uint512_div(to_uint256(Uint256_max * burn_acc(i)),
                                              Unwrap(total)))
         IN  IF total = None \/ total = Some(0) THEN Panic
             ELSE Returned([i \in DOMAIN burn_sample |->
                     [burn_sample[i] EXCEPT
                         !.range_start = IF i = 1 THEN Uint256_zero ELSE end(i - 1),
                         !.range_end = end(i)]])

\* BurnSamplePoint::make_sortition_ranges; the unwrap of an overflowing
\* total and the division by a zero total panic
make_sortition_ranges(burn_sample) ==
    IF Len(burn_sample) = 0 THEN Returned(burn_sample)
    ELSE IF Len(burn_sample) = 1
    THEN Returned(<< [burn_sample[1] EXCEPT !.range_start = Uint256_zero,
                                            !.range_end = Uint256_max] >>)
    ELSE LET total == get_total_burns(burn_sample)
             burn_acc(i) == fold_burns(SubSeq(burn_sample, 1, i))
             end(i) == to_uint256(Uint512_div(Uint512_mul(Uint256_max, burn_acc(i)),
                                              Unwrap(total)))
         IN  IF total = None \/ total = Some(0) THEN Panic
             ELSE Returned([i \in DOMAIN burn_sample |->
                     [burn_sample[i] EXCEPT
                         !.range_start = IF i = 1 THEN Uint256_zero ELSE end(i - 1),
                         !.range_end = end(i)]])

\* the same, without the check of the user burns
ops_sanity_checks_commits_only(block_candidates, consumed_leader_keys, user_burns) ==
    LET block_height == block_candidates[1].block_number
    IN  /\ Len(block_candidates) = Len(consumed_leader_keys)
        /\ \A i \in DOMAIN block_candidates :
               block_candidates[i].block_number = block_height

\* BurnSamplePoint::ops_sanity_checks: TRUE when none of them panics
ops_sanity_checks(block_candidates, consumed_leader_keys, user_burns) ==
    LET block_height == block_candidates[1].block_number
    IN  /\ Len(block_candidates) = Len(consumed_leader_keys)
        /\ \A i \in DOMAIN block_candidates :
               block_candidates[i].block_number = block_height
        /\ \A i \in DOMAIN user_burns : user_burns[i].block_number = block_height

key_loc(key) == << key.block_number, key.vtxindex >>
key_ptr(bc) == << bc.block_number - bc.key_block_backptr, bc.key_vtxindex >>
burn_key(vrf_public_key, block_header_hash_160) ==
    << ECVRF_public_key_to_hex(vrf_public_key), block_header_hash_160 >>

sample_key(point) ==
    burn_key(point.key.public_key, Hash160_from_sha256(point.candidate.block_header_hash))

\* the keys of a list of leader keys and of a list of sample points, in order
key_locs(consumed_leader_keys) ==
    [i \in DOMAIN consumed_leader_keys |-> key_loc(consumed_leader_keys[i])]
sample_keys(burn_sample) == [i \in DOMAIN burn_sample |-> sample_key(burn_sample[i])]

\* the index of a map built by inserting a list of keys in order
Unique(keys) == \A i, j \in DOMAIN keys : keys[i] = keys[j] => i = j
IndexOf(keys, key) ==
    IF \E i \in DOMAIN keys : keys[i] = key
    THEN Some(CHOOSE i \in DOMAIN keys : keys[i] = key)
    ELSE None

\* the same, the fee of a matched user burn left out of the burns
RECURSIVE match_user_burns_fee_dropped(_, _)
match_user_burns_fee_dropped(burn_sample, user_burns) ==
    IF user_burns = << >> THEN burn_sample
    ELSE LET user_burn == Head(user_burns)
             block_idx_opt == IndexOf(sample_keys(burn_sample),
                                      burn_key(user_burn.public_key,
                                               user_burn.block_header_hash_160))
             idx == Unwrap(block_idx_opt)
         IN  IF block_idx_opt = None
             THEN match_user_burns_fee_dropped(burn_sample, Tail(user_burns))
             ELSE match_user_burns_fee_dropped(
                      [burn_sample EXCEPT ![idx].user_burns = Append(@, user_burn)],
                      Tail(user_burns))

\* the same, a matched user burn put in front of the earlier ones
RECURSIVE match_user_burns_in_front(_, _)
match_user_burns_in_front(burn_sample, user_burns) ==
    IF user_burns = << >> THEN burn_sample
    ELSE LET user_burn == Head(user_burns)
             block_idx_opt == IndexOf(sample_keys(burn_sample),
                                      burn_key(user_burn.public_key,
                                               user_burn.block_header_hash_160))
             idx == Unwrap(block_idx_opt)
         IN  IF block_idx_opt = None
             THEN match_user_burns_in_front(burn_sample, Tail(user_burns))
             ELSE match_user_burns_in_front(
                      [burn_sample EXCEPT ![idx].burns = @ + user_burn.burn_fee,
                                          ![idx].user_burns = << user_burn >> \o @],
                      Tail(user_burns))

\* the matching loop of BurnSamplePoint::apply_user_burns
RECURSIVE match_user_burns(_, _)
match_user_burns(burn_sample, user_burns) ==
    IF user_burns = << >> THEN burn_sample
    ELSE LET user_burn == Head(user_burns)
             block_idx_opt == IndexOf(sample_keys(burn_sample),
                                      burn_key(user_burn.public_key,
                                               user_burn.block_header_hash_160))
             idx == Unwrap(block_idx_opt)
         IN  IF block_idx_opt = None
             THEN match_user_burns(burn_sample, Tail(user_burns))
             ELSE match_user_burns(
                      [burn_sample EXCEPT ![idx].burns = @ + user_burn.burn_fee,
                                          ![idx].user_burns = Append(@, user_burn)],
                      Tail(user_burns))

\* BurnSamplePoint::make_distribution
make_distribution(block_candidates, consumed_leader_keys, user_burns) ==
    IF Len(block_candidates) = 0 THEN Returned(<< >>)
    ELSE IF ~ops_sanity_checks(block_candidates, consumed_leader_keys, user_burns)
    THEN Panic
    ELSE IF ~Unique(key_locs(consumed_leader_keys)) THEN Panic
    ELSE IF \E i \in DOMAIN block_candidates :
                IndexOf(key_locs(consumed_leader_keys), key_ptr(block_candidates[i])) = None
    THEN Panic
    ELSE LET burn_sample ==
                 [i \in DOMAIN block_candidates |->
                     LET bc == block_candidates[i]
                         key_idx == Unwrap(IndexOf(key_locs(consumed_leader_keys),
                                                   key_ptr(bc)))
                     IN  [burns |-> bc.burn_fee,
                          range_start |-> Uint256_zero,
                          range_end |-> Uint256_zero,
                          candidate |-> bc,
                          key |-> consumed_leader_keys[key_idx],
                          user_burns |-> << >>]]
         IN  IF ~Unique(sample_keys(burn_sample)) THEN Panic
             ELSE make_sortition_ranges(match_user_burns(burn_sample, user_burns))

\* The operations of one burn chain block: the i-th leader key and the block
\* commit that points to it, and user burns for the first two commits and
\* for no commit.
leader_key(i) ==
    [block_number |-> 124 - i, vtxindex |-> 455 + i, public_key |-> << "vrf", i >>]
block_commit(i, burn_fee, block_number) ==
    [block_number |-> block_number,
     key_block_backptr |-> block_number - leader_key(i).block_number,
     key_vtxindex |-> leader_key(i).vtxindex,
     block_header_hash |-> << "block", i >>,
     burn_fee |-> burn_fee]
user_burn_at(i, burn_fee, block_number) ==
    [block_number |-> block_number, public_key |-> leader_key(i).public_key,
     block_header_hash_160 |-> Hash160_from_sha256(block_commit(i, 0, 124).block_header_hash),
     burn_fee |-> burn_fee]
user_burn_for(i, burn_fee) == user_burn_at(i, burn_fee, 124)
user_burn_noblock ==
    [block_number |-> 124, public_key |-> leader_key(1).public_key,
     block_header_hash_160 |-> Hash160_from_sha256(<< "block", 0 >>),
     burn_fee |-> 5]

BurnFees == {0, 1, 5}
UserBurnLists ==
    {<< >>, << user_burn_for(1, 5) >>, << user_burn_noblock >>,
     << user_burn_for(1, 1), user_burn_for(2, 1), user_burn_noblock, user_burn_for(1, 5) >>,
     << user_burn_for(1, u64_MAX - 1) >>}

\* well-formed operations, and the ones the sanity checks are there for
DistInputs ==
    {[block_candidates |-> [i \in 1..n |-> block_commit(i, fees[i], 124)],
      consumed_leader_keys |-> [i \in 1..n |-> leader_key(i)],
      user_burns |-> user_burns] :
        n \in 0..MaxCommits, fees \in [1..MaxCommits -> BurnFees],
        user_burns \in UserBurnLists}
    \cup
    {[block_candidates |-> [i \in 1..n |-> block_commit(i, 1, 124)],
      consumed_leader_keys |-> [i \in 1..(n - 1) |-> leader_key(i)],
      user_burns |-> << >>] : n \in 1..MaxCommits}
    \cup
    {[block_candidates |-> [i \in 1..n |-> block_commit(i, 1, 124)],
      consumed_leader_keys |-> [i \in 1..n |-> leader_key(1)],
      user_burns |-> << >>] : n \in 2..MaxCommits}
    \cup
    {[block_candidates |-> [i \in 1..n |-> block_commit(1, 1, 124)],
      consumed_leader_keys |-> [i \in 1..n |-> leader_key(1)],
      user_burns |-> << >>] : n \in 2..MaxCommits}
    \cup
    {[block_candidates |-> [i \in 1..n |-> block_commit(i, 1, 123 + i)],
      consumed_leader_keys |-> [i \in 1..n |-> leader_key(i)],
      user_burns |-> << >>] : n \in 2..MaxCommits}
    \cup
    {[block_candidates |-> [i \in 1..n |-> block_commit(i, 1, 124)],
      consumed_leader_keys |-> [i \in 1..n |-> leader_key(i)],
      user_burns |-> << user_burn_for(1, 1), user_burn_at(1, 1, 125) >>] :
        n \in 1..MaxCommits}
    \cup
    {[block_candidates |-> [i \in 1..n |-> block_commit(i, 1, 124)],
      consumed_leader_keys |-> [i \in 1..n |-> leader_key(IF i = n THEN n + 1 ELSE i)],
      user_burns |-> << >>] : n \in 1..MaxCommits}
    \cup
    {[block_candidates |-> << >>,
      consumed_leader_keys |-> << leader_key(1) >>,
      user_burns |-> << user_burn_noblock >>]}

DistInit ==
    LET s == From_SignerConfig(EmptyDb, EmptyStates, signer_id)
    IN  /\ signer_db = s.signer_db
        /\ state = s.state
        /\ commands = s.commands
        /\ coordinator = s.coordinator
        /\ coordinator_selector = s.coordinator_selector
        /\ approved_aggregate_public_key = s.approved_aggregate_public_key
        /\ signing_round = s.signing_round
        /\ signer_states = s.signer_states
        /\ out = Returned(<< >>)
        /\ \E input \in DistInputs :
               ev = [call |-> "operations", block_candidates |-> input.block_candidates,
                     consumed_leader_keys |-> input.consumed_leader_keys,
                     user_burns |-> input.user_burns]

DistRest ==
    UNCHANGED << signer_db, state, commands, coordinator, coordinator_selector,
                 approved_aggregate_public_key, signing_round, signer_states >>

MakeDistribution ==
    /\ ev.call = "operations"
    /\ ev' = [ev EXCEPT !.call = "make_distribution"]
    /\ out' = make_distribution(ev.block_candidates, ev.consumed_leader_keys,
                                ev.user_burns)
    /\ DistRest

GetTotalBurns ==
    /\ ev.call = "make_distribution"
    /\ ~out.panicked
    /\ ev' = [ev EXCEPT !.call = "get_total_burns"]
    /\ out' = [panicked |-> FALSE, burn_sample |-> out.burn_sample,
               total |-> get_total_burns(out.burn_sample)]
    /\ DistRest

DistNext == MakeDistribution \/ GetTotalBurns

DistSpec == DistInit /\ [][DistNext]_vars

(***************************************************************************)
(* Transaction authorisation (chainstate/stacks/auth.rs).  Hashes are kept *)
(* as the data they were taken over and a signature as the key and the     *)
(* message it was made with, so two hashes or signatures are equal exactly *)
(* when their inputs are.                                                  *)
(***************************************************************************)
Ok(value) == << "Ok", value >>
Err(error) == << "Err", error >>
is_ok(result) == result[1] = "Ok"

\* u64::to_be_bytes, most significant first, one cell a bit
to_be_bytes(n) == [i \in 1..U64Bits |-> (n \div (2 ^ (U64Bits - i))) % 2]

\* Txid::from_sighash_bytes over the cells given
Txid_from_sighash_bytes(bits) == << "Txid", bits >>

\* StacksPrivateKey: the secret and whether its public key is compressed
Keys == {"k1", "k2"}
PrivKeys == [key : Keys, compress_public : BOOLEAN]

\* StacksPublicKey::from_private, set_compressed
StacksPublicKey_from_private(privk) ==
    [key |-> privk.key, compressed |-> privk.compress_public]
set_compressed(pubk, value) == [pubk EXCEPT !.compressed = value]

\* the TransactionPublicKeyEncoding of the public key of a private key
encoding_of(privk) == IF privk.compress_public THEN "Compressed" ELSE "Uncompressed"

\* StacksPrivateKey::sign, MessageSignature::empty and from_raw
sign(privk, msg) == [by |-> privk.key, over |-> msg]
MessageSignature_empty == [by |-> "empty", over |-> << >>]
MessageSignature_from_raw(byte) == [by |-> "raw", over |-> << byte >>]

\* StacksPublicKey::recover_to_pubkey: the signing key when the signature was
\* made over this message, some other key when it was made over another one,
\* and an error for bytes that are no signature
recover_to_pubkey(msg, sig) ==
    IF sig.by \notin Keys THEN Err("secp256k1")
    ELSE IF sig.over = msg THEN Ok([key |-> sig.by, compressed |-> TRUE])
    ELSE Ok([key |-> "other", compressed |-> TRUE])

\* TransactionSpendingCondition::make_sighash_presign
make_sighash_presign(cur_sighash, cond_code, fee_rate, nonce) ==
    LET new_tx_hash_bits ==
            << cur_sighash, cond_code >> \o to_be_bytes(fee_rate) \o to_be_bytes(nonce)
    IN  Txid_from_sighash_bytes(new_tx_hash_bits)

\* TransactionSpendingCondition::make_sighash_postsign
make_sighash_postsign(cur_sighash, pubkey, sig) ==
    LET pubkey_encoding == IF pubkey.compressed THEN "Compressed" ELSE "Uncompressed"
        new_tx_hash_bits == << cur_sighash, pubkey_encoding, sig >>
    IN  Txid_from_sighash_bytes(new_tx_hash_bits)

\* TransactionSpendingCondition::next_signature
next_signature(cur_sighash, cond_code, fee_rate, nonce, privk) ==
    LET sighash_presign == make_sighash_presign(cur_sighash, cond_code, fee_rate, nonce)
        sig == sign(privk, sighash_presign)
        pubk == StacksPublicKey_from_private(privk)
        next_sighash == make_sighash_postsign(sighash_presign, pubk, sig)
    IN  Ok([sig |-> sig, next_sighash |-> next_sighash])

\* the same, leaving the recovered key compressed whatever the encoding says
next_verification_as_recovered(cur_sighash, cond_code, fee_rate, nonce, key_encoding, sig) ==
    LET sighash_presign == make_sighash_presign(cur_sighash, cond_code, fee_rate, nonce)
        recovered == recover_to_pubkey(sighash_presign, sig)
    IN  IF ~is_ok(recovered) THEN Err("VerifyingError")
        ELSE Ok([pubk |-> recovered[2],
                 next_sighash |-> make_sighash_postsign(sighash_presign, recovered[2], sig)])

\* TransactionSpendingCondition::next_verification
next_verification(cur_sighash, cond_code, fee_rate, nonce, key_encoding, sig) ==
    LET sighash_presign == make_sighash_presign(cur_sighash, cond_code, fee_rate, nonce)
        recovered == recover_to_pubkey(sighash_presign, sig)
    IN  IF ~is_ok(recovered) THEN Err("VerifyingError")
        ELSE LET pubk == set_compressed(recovered[2], key_encoding = "Compressed")
                 next_sighash == make_sighash_postsign(sighash_presign, pubk, sig)
             IN  Ok([pubk |-> pubk, next_sighash |-> next_sighash])

(***************************************************************************)
(* Signing and verifying, applied to the inputs below.                     *)
(***************************************************************************)
AuthFlags == {"AuthStandard", "AuthSponsored"}
KeyEncodings == {"Compressed", "Uncompressed"}
FeeRates == {0, 1, u64_MAX}
AuthNonces == {0, 2}

\* the hash of a transaction with its authorisation cleared, and a sighash
\* one signature further on
InitialSighash == Txid_from_sighash_bytes(<< "tx" >>)
Sighashes ==
    {InitialSighash,
     next_signature(InitialSighash, "AuthStandard", 0, 0,
                    [key |-> "k2", compress_public |-> TRUE])[2].next_sighash}

AuthRest ==
    UNCHANGED << signer_db, state, commands, coordinator, coordinator_selector,
                 approved_aggregate_public_key, signing_round, signer_states >>

AuthPinned ==
    LET s == From_SignerConfig(EmptyDb, EmptyStates, signer_id)
    IN  /\ signer_db = s.signer_db
        /\ state = s.state
        /\ commands = s.commands
        /\ coordinator = s.coordinator
        /\ coordinator_selector = s.coordinator_selector
        /\ approved_aggregate_public_key = s.approved_aggregate_public_key
        /\ signing_round = s.signing_round
        /\ signer_states = s.signer_states

SigningInputs ==
    [cur_sighash : Sighashes, cond_code : AuthFlags, fee_rate : FeeRates,
     nonce : AuthNonces, privk : PrivKeys]

NextSignature ==
    /\ ev.call = "signing"
    /\ ev' = [ev EXCEPT !.call = "next_signature"]
    /\ out' = next_signature(ev.input.cur_sighash, ev.input.cond_code,
                             ev.input.fee_rate, ev.input.nonce, ev.input.privk)
    /\ AuthRest

NextVerification ==
    /\ ev.call = "next_signature"
    /\ \E key_encoding \in KeyEncodings :
           /\ ev' = [call |-> "next_verification", input |-> ev.input,
                     signed |-> out[2], key_encoding |-> key_encoding]
           /\ out' = next_verification(ev.input.cur_sighash, ev.input.cond_code,
                                       ev.input.fee_rate, ev.input.nonce,
                                       key_encoding, out[2].sig)
    /\ AuthRest
(***************************************************************************)
(* Spending conditions and their verification.                             *)
(***************************************************************************)
u16_MAX == 65535
MaxFields == 2

SinglesigHashModes == {"P2PKH", "P2WPKH"}
MultisigHashModes == {"P2SH", "P2WSH"}

\* SinglesigHashMode::to_address_hash_mode, MultisigHashMode::to_address_hash_mode
to_address_hash_mode(hash_mode) ==
    CASE hash_mode = "P2PKH" -> "SerializeP2PKH"
      [] hash_mode = "P2WPKH" -> "SerializeP2WPKH"
      [] hash_mode = "P2SH" -> "SerializeP2SH"
      [] hash_mode = "P2WSH" -> "SerializeP2WSH"

\* address::public_keys_to_address_hash, and a Hash160 of the bytes given
public_keys_to_address_hash(hash_mode, num_sigs, pubkeys) ==
    << "hash160", hash_mode, num_sigs, pubkeys >>
Hash160_of(byte) == << "hash160", "bytes", byte, << >> >>

all_compressed(pubkeys) == \A i \in 1..Len(pubkeys) : pubkeys[i].compressed

\* the same, hashing uncompressed keys under every hash mode
from_public_keys_any_encoding(version, hash_mode, num_sigs, pubkeys) ==
    Some([version |-> version,
          bytes |-> public_keys_to_address_hash(hash_mode, num_sigs, pubkeys)])

\* StacksAddress::from_public_keys: no address for an uncompressed key under
\* a segwit hash mode
from_public_keys(version, hash_mode, num_sigs, pubkeys) ==
    IF hash_mode \in {"SerializeP2WPKH", "SerializeP2WSH"} /\ ~all_compressed(pubkeys)
    THEN None
    ELSE Some([version |-> version,
               bytes |-> public_keys_to_address_hash(hash_mode, num_sigs, pubkeys)])

\* TransactionAuthField::PublicKey and TransactionAuthField::Signature
PublicKeyField(pubkey) == [id |-> "PublicKey", pubkey |-> pubkey]
SignatureField(key_encoding, sig) ==
    [id |-> "Signature", key_encoding |-> key_encoding, sig |-> sig]

\* the loop of MultisigSpendingCondition::verify, from the fields left and
\* what the fields before them gave
VerifyingFrom(initial_sighash) ==
    [pubkeys |-> << >>, cur_sighash |-> initial_sighash, num_sigs |-> 0,
     have_uncompressed |-> FALSE]

\* the same, verifying every signature against the initial sighash
RECURSIVE verify_fields_unrolled(_, _, _, _, _)
verify_fields_unrolled(fields, acc, cond_code, fee_rate, nonce) ==
    IF fields = << >> THEN Ok(acc)
    ELSE LET field == Head(fields)
         IN  IF field.id = "PublicKey"
             THEN verify_fields_unrolled(Tail(fields),
                      [acc EXCEPT !.have_uncompressed = @ \/ ~field.pubkey.compressed,
                                  !.pubkeys = Append(@, field.pubkey)],
                      cond_code, fee_rate, nonce)
             ELSE LET v == next_verification(acc.cur_sighash, cond_code, fee_rate,
                                             nonce, field.key_encoding, field.sig)
                  IN  IF ~is_ok(v) THEN Err("VerifyingError")
                      ELSE IF acc.num_sigs + 1 > u16_MAX THEN Err("VerifyingError")
                      ELSE verify_fields_unrolled(Tail(fields),
                               [pubkeys |-> Append(acc.pubkeys, v[2].pubk),
                                cur_sighash |-> acc.cur_sighash,
                                num_sigs |-> acc.num_sigs + 1,
                                have_uncompressed |->
                                    acc.have_uncompressed
                                    \/ field.key_encoding = "Uncompressed"],
                               cond_code, fee_rate, nonce)

RECURSIVE verify_fields(_, _, _, _, _)
verify_fields(fields, acc, cond_code, fee_rate, nonce) ==
    IF fields = << >> THEN Ok(acc)
    ELSE LET field == Head(fields)
         IN  IF field.id = "PublicKey"
             THEN verify_fields(Tail(fields),
                      [acc EXCEPT !.have_uncompressed = @ \/ ~field.pubkey.compressed,
                                  !.pubkeys = Append(@, field.pubkey)],
                      cond_code, fee_rate, nonce)
             ELSE LET v == next_verification(acc.cur_sighash, cond_code, fee_rate,
                                             nonce, field.key_encoding, field.sig)
                  IN  IF ~is_ok(v) THEN Err("VerifyingError")
                      ELSE IF acc.num_sigs + 1 > u16_MAX THEN Err("VerifyingError")
                      ELSE verify_fields(Tail(fields),
                               [pubkeys |-> Append(acc.pubkeys, v[2].pubk),
                                cur_sighash |-> v[2].next_sighash,
                                num_sigs |-> acc.num_sigs + 1,
                                have_uncompressed |->
                                    acc.have_uncompressed
                                    \/ field.key_encoding = "Uncompressed"],
                               cond_code, fee_rate, nonce)

\* MultisigSpendingCondition::verify
MultisigSpendingCondition_verify(self, initial_sighash, cond_code) ==
    LET walked == verify_fields(self.fields, VerifyingFrom(initial_sighash),
                                cond_code, self.fee_rate, self.nonce)
    IN  IF ~is_ok(walked) THEN walked
        ELSE IF walked[2].num_sigs # self.signatures_required THEN Err("VerifyingError")
        ELSE IF walked[2].have_uncompressed /\ self.hash_mode = "P2WSH"
             THEN Err("VerifyingError")
        ELSE LET addr == from_public_keys(0, to_address_hash_mode(self.hash_mode),
                                          self.signatures_required, walked[2].pubkeys)
             IN  IF addr = None THEN Err("VerifyingError")
                 ELSE IF addr[1].bytes # self.signer THEN Err("VerifyingError")
                 ELSE Ok(walked[2].cur_sighash)

\* SinglesigSpendingCondition::verify
SinglesigSpendingCondition_verify(self, initial_sighash, cond_code) ==
    LET v == next_verification(initial_sighash, cond_code, self.fee_rate,
                               self.nonce, self.key_encoding, self.signature)
    IN  IF ~is_ok(v) THEN v
        ELSE LET addr == from_public_keys(0, to_address_hash_mode(self.hash_mode), 1,
                                          << v[2].pubk >>)
             IN  IF addr = None THEN Err("VerifyingError")
                 ELSE IF addr[1].bytes # self.signer THEN Err("VerifyingError")
                 ELSE Ok(v[2].next_sighash)

\* TransactionSpendingCondition::verify
TransactionSpendingCondition_verify(self, initial_sighash, cond_code) ==
    IF self.kind = "Singlesig"
    THEN SinglesigSpendingCondition_verify(self, initial_sighash, cond_code)
    ELSE MultisigSpendingCondition_verify(self, initial_sighash, cond_code)

(***************************************************************************)
(* The spending conditions verified: single signature conditions with each *)
(* hash mode, encoding, signer and signature, and multisig conditions      *)
(* whose fields were pushed one by one by the keys below.                  *)
(***************************************************************************)
k1 == [key |-> "k1", compress_public |-> TRUE]
k2 == [key |-> "k2", compress_public |-> FALSE]
fee_rate_signed == 1
nonce_signed == 2

\* SinglesigSpendingCondition { .. } and MultisigSpendingCondition { .. }
Singlesig_of(hash_mode, signer, nonce, fee_rate, key_encoding, signature) ==
    [kind |-> "Singlesig", hash_mode |-> hash_mode, signer |-> signer,
     nonce |-> nonce, fee_rate |-> fee_rate,
     key_encoding |-> key_encoding, signature |-> signature]

Multisig_of(hash_mode, signer, nonce, fee_rate, fields, signatures_required) ==
    [kind |-> "Multisig", hash_mode |-> hash_mode, signer |-> signer,
     nonce |-> nonce, fee_rate |-> fee_rate,
     fields |-> fields, signatures_required |-> signatures_required]

Singlesig(hash_mode, signer, key_encoding, signature) ==
    Singlesig_of(hash_mode, signer, nonce_signed, fee_rate_signed, key_encoding, signature)

Multisig(hash_mode, signer, fields, signatures_required) ==
    Multisig_of(hash_mode, signer, nonce_signed, fee_rate_signed, fields,
                signatures_required)

SinglesigConditions(cur_sighash, cond_code) ==
    {Singlesig(hash_mode, signer, key_encoding, signature) :
         hash_mode \in SinglesigHashModes,
         signer \in {public_keys_to_address_hash(to_address_hash_mode(m), 1,
                         << [key |-> "k1", compressed |-> c] >>) :
                         m \in SinglesigHashModes, c \in BOOLEAN}
                    \cup {Hash160_of(17)},
         key_encoding \in KeyEncodings,
         signature \in {next_signature(cur_sighash, cond_code, fee_rate_signed,
                                       nonce_signed, k1)[2].sig,
                        MessageSignature_empty}}

\* what a key adds to the fields: its signature under its own encoding or
\* under the other one, its public key, or bytes that are no signature
Pushes ==
    {[privk |-> k1, how |-> "Signature"], [privk |-> k2, how |-> "Signature"],
     [privk |-> k1, how |-> "PublicKey"], [privk |-> k2, how |-> "PublicKey"],
     [privk |-> k1, how |-> "OtherEncoding"], [privk |-> k1, how |-> "NoSignature"]}

Plans == UNION {[1..n -> Pushes] : n \in 0..MaxFields}

other_encoding(key_encoding) ==
    IF key_encoding = "Compressed" THEN "Uncompressed" ELSE "Compressed"

\* push_signature and push_public_key, each signature made by next_signature
\* over the sighash the signatures before it left
RECURSIVE push_fields(_, _, _)
push_fields(plan, cur_sighash, cond_code) ==
    IF plan = << >> THEN << >>
    ELSE LET push == Head(plan)
             signed == next_signature(cur_sighash, cond_code, fee_rate_signed,
                                      nonce_signed, push.privk)[2]
         IN  CASE push.how = "PublicKey" ->
                    << PublicKeyField(StacksPublicKey_from_private(push.privk)) >>
                    \o push_fields(Tail(plan), cur_sighash, cond_code)
               [] push.how = "NoSignature" ->
                    << SignatureField(encoding_of(push.privk), MessageSignature_empty) >>
                    \o push_fields(Tail(plan), cur_sighash, cond_code)
               [] push.how = "Signature" ->
                    << SignatureField(encoding_of(push.privk), signed.sig) >>
                    \o push_fields(Tail(plan), signed.next_sighash, cond_code)
               [] push.how = "OtherEncoding" ->
                    << SignatureField(other_encoding(encoding_of(push.privk)), signed.sig) >>
                    \o push_fields(Tail(plan), signed.next_sighash, cond_code)

\* the public keys the fields stand for
field_keys(plan) ==
    [i \in 1..Len(plan) |->
        IF plan[i].how = "OtherEncoding"
        THEN [key |-> plan[i].privk.key, compressed |-> ~plan[i].privk.compress_public]
        ELSE StacksPublicKey_from_private(plan[i].privk)]

MultisigConditions(cur_sighash, cond_code) ==
    {Multisig(hash_mode,
              IF right_signer
              THEN public_keys_to_address_hash(to_address_hash_mode(hash_mode),
                                               signatures_required, field_keys(plan))
              ELSE Hash160_of(17),
              push_fields(plan, cur_sighash, cond_code), signatures_required) :
         hash_mode \in MultisigHashModes, plan \in Plans,
         signatures_required \in 0..MaxFields, right_signer \in BOOLEAN}

Conditions(cur_sighash, cond_code) ==
    SinglesigConditions(cur_sighash, cond_code) \cup MultisigConditions(cur_sighash, cond_code)

ConditionInputs ==
    UNION {[cond : Conditions(InitialSighash, signed_code),
            initial_sighash : {InitialSighash}, cond_code : AuthFlags] :
               signed_code \in AuthFlags}

Verify ==
    /\ ev.call = "condition"
    /\ ev' = [ev EXCEPT !.call = "verify"]
    /\ out' = TransactionSpendingCondition_verify(ev.input.cond, ev.input.initial_sighash,
                                                  ev.input.cond_code)
    /\ AuthRest
(***************************************************************************)
(* Transaction auth: one spending condition, or an origin and a sponsor.   *)
(***************************************************************************)
Standard(origin_condition) == [kind |-> "Standard", origin |-> origin_condition]
Sponsored(origin_condition, sponsor_condition) ==
    [kind |-> "Sponsored", origin |-> origin_condition, sponsor |-> sponsor_condition]

\* TransactionAuth::verify_origin
verify_origin(self, initial_sighash) ==
    TransactionSpendingCondition_verify(self.origin, initial_sighash, "AuthStandard")

\* the same, verifying the sponsor as another origin
TransactionAuth_verify_each_alone(self, initial_sighash) ==
    LET origin_sighash == verify_origin(self, initial_sighash)
    IN  IF ~is_ok(origin_sighash) THEN origin_sighash
        ELSE IF self.kind = "Standard" THEN Ok(TRUE)
        ELSE LET sponsored == TransactionSpendingCondition_verify(
                                  self.sponsor, initial_sighash, "AuthStandard")
             IN  IF is_ok(sponsored) THEN Ok(TRUE) ELSE sponsored

\* TransactionAuth::verify
TransactionAuth_verify(self, initial_sighash) ==
    LET origin_sighash == verify_origin(self, initial_sighash)
    IN  IF ~is_ok(origin_sighash) THEN origin_sighash
        ELSE IF self.kind = "Standard" THEN Ok(TRUE)
        ELSE LET sponsored == TransactionSpendingCondition_verify(
                                  self.sponsor, origin_sighash[2], "AuthSponsored")
             IN  IF is_ok(sponsored) THEN Ok(TRUE) ELSE sponsored

\* TransactionSpendingCondition::new_singlesig_p2pkh, new_singlesig_p2wpkh,
\* new_multisig_p2sh and new_multisig_p2wsh, with the nonce and the fee rate
\* the signers then set
new_singlesig_p2pkh(pubkey) ==
    LET signer_addr == from_public_keys(0, "SerializeP2PKH", 1, << pubkey >>)
    IN  IF signer_addr = None THEN None
        ELSE Some(Singlesig("P2PKH", signer_addr[1].bytes,
                            IF pubkey.compressed THEN "Compressed" ELSE "Uncompressed",
                            MessageSignature_empty))

new_singlesig_p2wpkh(pubkey) ==
    LET signer_addr == from_public_keys(0, "SerializeP2WPKH", 1, << pubkey >>)
    IN  IF signer_addr = None THEN None
        ELSE Some(Singlesig("P2WPKH", signer_addr[1].bytes, "Compressed",
                            MessageSignature_empty))

new_multisig_p2sh(num_sigs, pubkeys) ==
    LET signer_addr == from_public_keys(0, "SerializeP2SH", num_sigs, pubkeys)
    IN  IF signer_addr = None THEN None
        ELSE Some(Multisig("P2SH", signer_addr[1].bytes, << >>, num_sigs))

new_multisig_p2wsh(num_sigs, pubkeys) ==
    LET signer_addr == from_public_keys(0, "SerializeP2WSH", num_sigs, pubkeys)
    IN  IF signer_addr = None THEN None
        ELSE Some(Multisig("P2WSH", signer_addr[1].bytes, << >>, num_sigs))

\* a new condition signed: the signature of a single signer, or the fields
\* pushed by the keys of a plan
signed_singlesig(cond, privk, cur_sighash, cond_code) ==
    [cond EXCEPT !.signature =
        next_signature(cur_sighash, cond_code, cond.fee_rate, cond.nonce, privk)[2].sig]

signed_multisig(cond, plan, cur_sighash, cond_code) ==
    [cond EXCEPT !.fields = push_fields(plan, cur_sighash, cond_code)]

\* who signs the conditions of an auth: no key, one, or two, with public
\* keys standing for the keys that do not sign
SignerPlans ==
    {<< [privk |-> k1, how |-> "PublicKey"] >>,
     << [privk |-> k1, how |-> "Signature"] >>,
     << [privk |-> k1, how |-> "PublicKey"], [privk |-> k2, how |-> "Signature"] >>,
     << [privk |-> k2, how |-> "Signature"], [privk |-> k1, how |-> "Signature"] >>}

signatures_of(plan) == Cardinality({i \in 1..Len(plan) : plan[i].how = "Signature"})

SignedConditions(cur_sighash, cond_code) ==
    {signed_singlesig(new_singlesig_p2pkh(StacksPublicKey_from_private(privk))[1],
                      privk, cur_sighash, cond_code) : privk \in {k1, k2}}
    \cup {signed_singlesig(new_singlesig_p2wpkh(StacksPublicKey_from_private(k1))[1],
                           k1, cur_sighash, cond_code)}
    \cup {signed_multisig(new_multisig_p2sh(signatures_of(plan), field_keys(plan))[1],
                          plan, cur_sighash, cond_code) : plan \in SignerPlans}
    \cup {signed_multisig(new_multisig_p2wsh(signatures_of(plan), field_keys(plan))[1],
                          plan, cur_sighash, cond_code) :
              plan \in {p \in SignerPlans : all_compressed(field_keys(p))}}

\* the sighash the signatures of a condition leave
signed_sighash(cond, cur_sighash, cond_code) ==
    LET verified == TransactionSpendingCondition_verify(cond, cur_sighash, cond_code)
    IN  IF is_ok(verified) THEN verified[2] ELSE cur_sighash

\* the auths verified: the origin signs the initial sighash, the sponsor the
\* sighash the origin left or the initial one, each under either flag
Auths ==
    LET Origins == UNION {SignedConditions(InitialSighash, code) : code \in AuthFlags}
    IN  {Standard(origin) : origin \in Origins}
        \cup UNION {{Sponsored(origin, sponsor) :
                        sponsor \in UNION {SignedConditions(cur_sighash, code) :
                                               cur_sighash \in {InitialSighash,
                                                   signed_sighash(origin, InitialSighash,
                                                                  "AuthStandard")},
                                               code \in AuthFlags}} :
                       origin \in Origins}

AuthInputs == [auth : Auths, initial_sighash : {InitialSighash}]

VerifyAuth ==
    /\ ev.call = "auth"
    /\ ev' = [ev EXCEPT !.call = "auth_verify"]
    /\ out' = TransactionAuth_verify(ev.input.auth, ev.input.initial_sighash)
    /\ AuthRest

\* the same auth with the sponsor as origin and the origin as sponsor
VerifySwapped ==
    /\ ev.call = "auth_verify"
    /\ ev.input.auth.kind = "Sponsored"
    /\ ev' = [call |-> "auth_verify_swapped", input |-> ev.input, verified |-> out]
    /\ out' = TransactionAuth_verify(
                  Sponsored(ev.input.auth.sponsor, ev.input.auth.origin),
                  ev.input.initial_sighash)
    /\ AuthRest
(***************************************************************************)
(* The wire format.  A buffer is a sequence of cells: a cell holds one u8  *)
(* tag, one bit of a u64, a length, or a hash, key or signature whole.     *)
(* consensus_deserialize gives the result and where it leaves *index_ptr.  *)
(***************************************************************************)
Parsed(value, index) == [result |-> Ok(value), index_ptr |-> index]
Failed(error, index_ptr) == [result |-> Err(error), index_ptr |-> index_ptr]
failed(read) == ~is_ok(read.result)

\* u64::from_be_bytes
RECURSIVE from_be_bytes(_)
from_be_bytes(cells) ==
    IF cells = << >> THEN 0
    ELSE 2 * from_be_bytes(SubSeq(cells, 1, Len(cells) - 1)) + cells[Len(cells)]

\* net::codec::read_next of a value of one cell and of a u64
read_next(buf, index, max_size) ==
    IF index + 1 > Len(buf) \/ index + 1 > max_size
    THEN Failed("UnderflowError", index)
    ELSE Parsed(buf[index + 1], index + 1)

read_next_u64(buf, index, max_size) ==
    IF index + U64Bits > Len(buf) \/ index + U64Bits > max_size
    THEN Failed("UnderflowError", index)
    ELSE Parsed(from_be_bytes(SubSeq(buf, index + 1, index + U64Bits)), index + U64Bits)

\* StacksPublicKeyBuffer::from_public_key and to_public_key: the key without
\* its compression flag
StacksPublicKeyBuffer_from_public_key(pubk) == pubk.key
to_public_key(pubkey_buf) == [key |-> pubkey_buf, compressed |-> TRUE]

\* the same, writing every public key under the compressed field id
TransactionAuthField_consensus_serialize_one_key_id(self) ==
    IF self.id = "PublicKey"
    THEN << "PublicKeyCompressed", StacksPublicKeyBuffer_from_public_key(self.pubkey) >>
    ELSE << IF self.key_encoding = "Compressed" THEN "SignatureCompressed"
            ELSE "SignatureUncompressed",
            self.sig >>

\* TransactionAuthField::consensus_serialize
TransactionAuthField_consensus_serialize(self) ==
    IF self.id = "PublicKey"
    THEN << IF self.pubkey.compressed THEN "PublicKeyCompressed"
            ELSE "PublicKeyUncompressed",
            StacksPublicKeyBuffer_from_public_key(self.pubkey) >>
    ELSE << IF self.key_encoding = "Compressed" THEN "SignatureCompressed"
            ELSE "SignatureUncompressed",
            self.sig >>

\* TransactionAuthField::consensus_deserialize
TransactionAuthField_consensus_deserialize(buf, index_ptr, max_size) ==
    LET field_id_u8 == read_next(buf, index_ptr, max_size)
        pubkey_or_sig == read_next(buf, field_id_u8.index_ptr, max_size)
        field(field_id, payload) ==
            IF failed(field_id) THEN Failed(field_id.result[2], index_ptr)
            ELSE IF field_id.result[2] \notin {"PublicKeyCompressed", "PublicKeyUncompressed",
                                               "SignatureCompressed", "SignatureUncompressed"}
                 THEN Failed("DeserializeError", index_ptr)
            ELSE IF failed(payload) THEN Failed(payload.result[2], index_ptr)
            ELSE Parsed(
                     CASE field_id.result[2] = "PublicKeyCompressed" ->
                            PublicKeyField(
                                set_compressed(to_public_key(payload.result[2]), TRUE))
                       [] field_id.result[2] = "PublicKeyUncompressed" ->
                            PublicKeyField(
                                set_compressed(to_public_key(payload.result[2]), FALSE))
                       [] field_id.result[2] = "SignatureCompressed" ->
                            SignatureField("Compressed", payload.result[2])
                       [] field_id.result[2] = "SignatureUncompressed" ->
                            SignatureField("Uncompressed", payload.result[2]),
                     payload.index_ptr)
    IN  field(field_id_u8, pubkey_or_sig)

\* net::codec::write_next and read_next of a Vec<TransactionAuthField>: the
\* number of items, then the items
RECURSIVE write_next_fields(_)
write_next_fields(fields) ==
    IF fields = << >> THEN << >>
    ELSE TransactionAuthField_consensus_serialize(Head(fields))
         \o write_next_fields(Tail(fields))

RECURSIVE read_fields(_, _, _, _)
read_fields(buf, index, max_size, left) ==
    IF left = 0 THEN Parsed(<< >>, index)
    ELSE LET item == TransactionAuthField_consensus_deserialize(buf, index, max_size)
             items == read_fields(buf, item.index_ptr, max_size, left - 1)
             ret(field, rest) ==
                 IF failed(field) THEN Failed(field.result[2], index)
                 ELSE IF failed(rest) THEN Failed(rest.result[2], index)
                 ELSE Parsed(<< field.result[2] >> \o rest.result[2], rest.index_ptr)
         IN  ret(item, items)

read_next_fields(buf, index, max_size) ==
    LET len_u32 == read_next(buf, index, max_size)
        items_of(items) == IF failed(items) THEN Failed(items.result[2], index) ELSE items
        ret(len) ==
            IF failed(len) THEN Failed(len.result[2], index)
            ELSE items_of(read_fields(buf, len.index_ptr, max_size, len.result[2]))
    IN  ret(len_u32)

\* MultisigSpendingCondition::consensus_serialize
MultisigSpendingCondition_consensus_serialize(self) ==
    << self.hash_mode, self.signer >> \o to_be_bytes(self.nonce)
    \o to_be_bytes(self.fee_rate) \o << Len(self.fields) >>
    \o write_next_fields(self.fields) \o << self.signatures_required >>

\* the number of Signature fields and whether any field is uncompressed, as
\* the loop of MultisigSpendingCondition::consensus_deserialize counts them
num_sigs_given(fields) ==
    Cardinality({i \in 1..Len(fields) : fields[i].id = "Signature"})
have_uncompressed(fields) ==
    \E i \in 1..Len(fields) :
        IF fields[i].id = "Signature" THEN fields[i].key_encoding = "Uncompressed"
        ELSE ~fields[i].pubkey.compressed

\* MultisigSpendingCondition::consensus_deserialize
MultisigSpendingCondition_consensus_deserialize(buf, index_ptr, max_size) ==
    LET read_hash_mode == read_next(buf, index_ptr, max_size)
        read_signer == read_next(buf, read_hash_mode.index_ptr, max_size)
        read_nonce == read_next_u64(buf, read_signer.index_ptr, max_size)
        read_fee_rate == read_next_u64(buf, read_nonce.index_ptr, max_size)
        read_fields_vec == read_next_fields(buf, read_fee_rate.index_ptr, max_size)
        read_signatures_required == read_next(buf, read_fields_vec.index_ptr, max_size)
        condition(hash_mode_u8, signer, nonce, fee_rate, fields, signatures_required) ==
            IF failed(hash_mode_u8) THEN Failed(hash_mode_u8.result[2], index_ptr)
            ELSE IF hash_mode_u8.result[2] \notin MultisigHashModes
                 THEN Failed("DeserializeError", index_ptr)
            ELSE IF failed(signer) THEN Failed(signer.result[2], index_ptr)
            ELSE IF failed(nonce) THEN Failed(nonce.result[2], index_ptr)
            ELSE IF failed(fee_rate) THEN Failed(fee_rate.result[2], index_ptr)
            ELSE IF failed(fields) THEN Failed(fields.result[2], index_ptr)
            ELSE IF failed(signatures_required)
                 THEN Failed(signatures_required.result[2], index_ptr)
            ELSE IF num_sigs_given(fields.result[2]) > u16_MAX
                 THEN Failed("DeserializeError", index_ptr)
            ELSE IF num_sigs_given(fields.result[2]) # signatures_required.result[2]
                 THEN Failed("DeserializeError", index_ptr)
            ELSE IF have_uncompressed(fields.result[2]) /\ hash_mode_u8.result[2] = "P2WSH"
                 THEN Failed("DeserializeError", index_ptr)
            ELSE Parsed(Multisig_of(hash_mode_u8.result[2], signer.result[2],
                                    nonce.result[2], fee_rate.result[2], fields.result[2],
                                    signatures_required.result[2]),
                        signatures_required.index_ptr)
    IN  condition(read_hash_mode, read_signer, read_nonce, read_fee_rate, read_fields_vec,
                  read_signatures_required)

\* SinglesigSpendingCondition::consensus_serialize
SinglesigSpendingCondition_consensus_serialize(self) ==
    << self.hash_mode, self.signer >> \o to_be_bytes(self.nonce)
    \o to_be_bytes(self.fee_rate) \o << self.key_encoding, self.signature >>

\* the same, without the check of the key encoding under P2WPKH
SinglesigSpendingCondition_consensus_deserialize_unchecked(buf, index_ptr, max_size) ==
    LET read_hash_mode == read_next(buf, index_ptr, max_size)
        read_signer == read_next(buf, read_hash_mode.index_ptr, max_size)
        read_nonce == read_next_u64(buf, read_signer.index_ptr, max_size)
        read_fee_rate == read_next_u64(buf, read_nonce.index_ptr, max_size)
        read_key_encoding == read_next(buf, read_fee_rate.index_ptr, max_size)
        read_signature == read_next(buf, read_key_encoding.index_ptr, max_size)
        condition(hash_mode_u8, signer, nonce, fee_rate, key_encoding_u8, signature) ==
            IF failed(hash_mode_u8) THEN Failed(hash_mode_u8.result[2], index_ptr)
            ELSE IF hash_mode_u8.result[2] \notin SinglesigHashModes
                 THEN Failed("DeserializeError", index_ptr)
            ELSE IF failed(signer) THEN Failed(signer.result[2], index_ptr)
            ELSE IF failed(nonce) THEN Failed(nonce.result[2], index_ptr)
            ELSE IF failed(fee_rate) THEN Failed(fee_rate.result[2], index_ptr)
            ELSE IF failed(key_encoding_u8)
                 THEN Failed(key_encoding_u8.result[2], index_ptr)
            ELSE IF key_encoding_u8.result[2] \notin KeyEncodings
                 THEN Failed("DeserializeError", index_ptr)
            ELSE IF failed(signature) THEN Failed(signature.result[2], index_ptr)
            ELSE Parsed(Singlesig_of(hash_mode_u8.result[2], signer.result[2],
                                     nonce.result[2], fee_rate.result[2],
                                     key_encoding_u8.result[2], signature.result[2]),
                        signature.index_ptr)
    IN  condition(read_hash_mode, read_signer, read_nonce, read_fee_rate, read_key_encoding,
                  read_signature)

\* SinglesigSpendingCondition::consensus_deserialize
SinglesigSpendingCondition_consensus_deserialize(buf, index_ptr, max_size) ==
    LET read_hash_mode == read_next(buf, index_ptr, max_size)
        read_signer == read_next(buf, read_hash_mode.index_ptr, max_size)
        read_nonce == read_next_u64(buf, read_signer.index_ptr, max_size)
        read_fee_rate == read_next_u64(buf, read_nonce.index_ptr, max_size)
        read_key_encoding == read_next(buf, read_fee_rate.index_ptr, max_size)
        read_signature == read_next(buf, read_key_encoding.index_ptr, max_size)
        condition(hash_mode_u8, signer, nonce, fee_rate, key_encoding_u8, signature) ==
            IF failed(hash_mode_u8) THEN Failed(hash_mode_u8.result[2], index_ptr)
            ELSE IF hash_mode_u8.result[2] \notin SinglesigHashModes
                 THEN Failed("DeserializeError", index_ptr)
            ELSE IF failed(signer) THEN Failed(signer.result[2], index_ptr)
            ELSE IF failed(nonce) THEN Failed(nonce.result[2], index_ptr)
            ELSE IF failed(fee_rate) THEN Failed(fee_rate.result[2], index_ptr)
            ELSE IF failed(key_encoding_u8)
                 THEN Failed(key_encoding_u8.result[2], index_ptr)
            ELSE IF key_encoding_u8.result[2] \notin KeyEncodings
                 THEN Failed("DeserializeError", index_ptr)
            ELSE IF failed(signature) THEN Failed(signature.result[2], index_ptr)
            ELSE IF hash_mode_u8.result[2] = "P2WPKH"
                    /\ key_encoding_u8.result[2] # "Compressed"
                 THEN Failed("DeserializeError", index_ptr)
            ELSE Parsed(Singlesig_of(hash_mode_u8.result[2], signer.result[2],
                                     nonce.result[2], fee_rate.result[2],
                                     key_encoding_u8.result[2], signature.result[2]),
                        signature.index_ptr)
    IN  condition(read_hash_mode, read_signer, read_nonce, read_fee_rate, read_key_encoding,
                  read_signature)

\* TransactionSpendingCondition::consensus_serialize
TransactionSpendingCondition_consensus_serialize(self) ==
    IF self.kind = "Singlesig" THEN SinglesigSpendingCondition_consensus_serialize(self)
    ELSE MultisigSpendingCondition_consensus_serialize(self)

\* TransactionSpendingCondition::consensus_deserialize
TransactionSpendingCondition_consensus_deserialize(buf, index_ptr, max_size) ==
    IF Len(buf) <= index_ptr THEN Failed("UnderflowError", index_ptr)
    ELSE LET hash_mode_u8 == buf[index_ptr + 1]
             ret(cond) == IF failed(cond) THEN Failed(cond.result[2], index_ptr) ELSE cond
         IN  IF hash_mode_u8 \in SinglesigHashModes
             THEN ret(SinglesigSpendingCondition_consensus_deserialize(
                          buf, index_ptr, max_size))
             ELSE IF hash_mode_u8 \in MultisigHashModes
             THEN ret(MultisigSpendingCondition_consensus_deserialize(
                          buf, index_ptr, max_size))
             ELSE Failed("DeserializeError", index_ptr)

\* TransactionAuth::consensus_serialize
TransactionAuth_consensus_serialize(self) ==
    IF self.kind = "Standard"
    THEN << "AuthStandard" >> \o TransactionSpendingCondition_consensus_serialize(self.origin)
    ELSE << "AuthSponsored" >> \o TransactionSpendingCondition_consensus_serialize(self.origin)
         \o TransactionSpendingCondition_consensus_serialize(self.sponsor)

\* TransactionAuth::consensus_deserialize
TransactionAuth_consensus_deserialize(buf, index_ptr, max_size) ==
    LET read_type_id == read_next(buf, index_ptr, max_size)
        read_origin == TransactionSpendingCondition_consensus_deserialize(
                           buf, read_type_id.index_ptr, max_size)
        read_sponsor == TransactionSpendingCondition_consensus_deserialize(
                            buf, read_origin.index_ptr, max_size)
        auth(type_id, origin_auth, sponsor_auth) ==
            IF failed(type_id) THEN Failed(type_id.result[2], index_ptr)
            ELSE IF type_id.result[2] \notin AuthFlags
                 THEN Failed("DeserializeError", index_ptr)
            ELSE IF failed(origin_auth) THEN Failed(origin_auth.result[2], index_ptr)
            ELSE IF type_id.result[2] = "AuthStandard"
                 THEN Parsed(Standard(origin_auth.result[2]), origin_auth.index_ptr)
            ELSE IF failed(sponsor_auth) THEN Failed(sponsor_auth.result[2], index_ptr)
            ELSE Parsed(Sponsored(origin_auth.result[2], sponsor_auth.result[2]),
                        sponsor_auth.index_ptr)
    IN  auth(read_type_id, read_origin, read_sponsor)

\* consensus_serialize and consensus_deserialize of either kind of value
consensus_serialize(self) ==
    IF self.kind \in {"Standard", "Sponsored"} THEN TransactionAuth_consensus_serialize(self)
    ELSE TransactionSpendingCondition_consensus_serialize(self)

consensus_deserialize(kind, buf, index_ptr, max_size) ==
    IF kind \in {"Standard", "Sponsored"}
    THEN TransactionAuth_consensus_deserialize(buf, index_ptr, max_size)
    ELSE TransactionSpendingCondition_consensus_deserialize(buf, index_ptr, max_size)
(***************************************************************************)
(* Values written and read back: conditions and auths that keep the        *)
(* invariants of their hash mode and ones that do not, read from the start *)
(* of a buffer or between other bytes, and conditions read back after      *)
(* their hash mode byte was overwritten.                                   *)
(***************************************************************************)
CodecFields ==
    {SignatureField("Compressed", MessageSignature_from_raw(255)),
     SignatureField("Uncompressed", MessageSignature_from_raw(254)),
     PublicKeyField([key |-> "k1", compressed |-> TRUE]),
     PublicKeyField([key |-> "k2", compressed |-> FALSE])}

CodecSinglesigs ==
    {Singlesig_of(hash_mode, Hash160_of(17), nonce, fee_rate, key_encoding,
                  MessageSignature_from_raw(255)) :
         hash_mode \in SinglesigHashModes, nonce \in AuthNonces,
         fee_rate \in {1, u64_MAX}, key_encoding \in KeyEncodings}

CodecMultisigs ==
    {Multisig_of(hash_mode, Hash160_of(17), nonce_signed, fee_rate_signed, fields,
                 signatures_required) :
         hash_mode \in MultisigHashModes,
         fields \in UNION {[1..n -> CodecFields] : n \in 0..MaxFields},
         signatures_required \in 0..MaxFields}

CodecConditions == CodecSinglesigs \cup CodecMultisigs

\* the conditions that stand next to every other one in a sponsored auth
CodecPartners ==
    {c \in CodecSinglesigs : c.nonce = 0 /\ c.fee_rate = 1}
    \cup {Multisig_of("P2SH", Hash160_of(17), nonce_signed, fee_rate_signed,
                      << SignatureField("Uncompressed", MessageSignature_from_raw(254)),
                         PublicKeyField([key |-> "k2", compressed |-> FALSE]) >>, 1)}

CodecValues ==
    CodecConditions
    \cup {Standard(origin) : origin \in CodecConditions}
    \cup {Sponsored(origin, sponsor) : origin \in CodecConditions, sponsor \in CodecPartners}
    \cup {Sponsored(origin, sponsor) : origin \in CodecPartners, sponsor \in CodecConditions}

\* the bytes before and after the value in the buffer
Framings ==
    {[before |-> << >>, after |-> << >>],
     [before |-> << "AuthStandard" >>, after |-> << "P2PKH" >>]}

is_condition(value) == value.kind \in {"Singlesig", "Multisig"}

CodecInit ==
    /\ AuthPinned
    /\ out = << >>
    /\ \E value \in CodecValues : ev = [call |-> "value", input |-> value]

ConsensusSerialize ==
    /\ ev.call = "value"
    /\ ev' = [ev EXCEPT !.call = "consensus_serialize"]
    /\ out' = consensus_serialize(ev.input)
    /\ AuthRest

\* a hash mode byte that is no hash mode
OverwriteHashMode ==
    /\ ev.call = "consensus_serialize"
    /\ is_condition(ev.input)
    /\ ev' = [ev EXCEPT !.call = "overwritten"]
    /\ out' = [out EXCEPT ![1] = "0xff"]
    /\ AuthRest

\* TransactionAuth / TransactionSpendingCondition ::consensus_deserialize
ConsensusDeserialize ==
    /\ ev.call \in {"consensus_serialize", "overwritten"}
    /\ \E framing \in Framings :
           LET buf == framing.before \o out \o framing.after
           IN  /\ ev' = [call |-> "consensus_deserialize", input |-> ev.input,
                         overwritten |-> ev.call = "overwritten", bytes |-> out,
                         index_ptr |-> Len(framing.before)]
               /\ out' = consensus_deserialize(ev.input.kind, buf, Len(framing.before),
                                               Len(buf))
    /\ AuthRest

\* SinglesigSpendingCondition / MultisigSpendingCondition ::consensus_deserialize
ConsensusDeserializeCondition ==
    /\ ev.call \in {"consensus_serialize", "overwritten"}
    /\ is_condition(ev.input)
    /\ \E framing \in Framings :
           LET buf == framing.before \o out \o framing.after
           IN  /\ ev' = [call |-> "consensus_deserialize", input |-> ev.input,
                         overwritten |-> ev.call = "overwritten", bytes |-> out,
                         index_ptr |-> Len(framing.before)]
               /\ out' = IF ev.input.kind = "Singlesig"
                         THEN SinglesigSpendingCondition_consensus_deserialize(
                                  buf, Len(framing.before), Len(buf))
                         ELSE MultisigSpendingCondition_consensus_deserialize(
                                  buf, Len(framing.before), Len(buf))
    /\ AuthRest

CodecNext ==
    \/ ConsensusSerialize
    \/ OverwriteHashMode
    \/ ConsensusDeserialize
    \/ ConsensusDeserializeCondition

CodecSpec == CodecInit /\ [][CodecNext]_vars
AuthInit ==
    /\ AuthPinned
    /\ out = Ok(<< >>)
    /\ \/ \E input \in SigningInputs : ev = [call |-> "signing", input |-> input]
       \/ \E input \in ConditionInputs : ev = [call |-> "condition", input |-> input]
       \/ \E input \in AuthInputs : ev = [call |-> "auth", input |-> input]

AuthNext == NextSignature \/ NextVerification \/ Verify \/ VerifyAuth \/ VerifySwapped

AuthSpec == AuthInit /\ [][AuthNext]_vars

(***************************************************************************)
(* The auth a transaction commits to before anyone has signed: the origin  *)
(* cleared, the sponsor replaced by a sentinel.                            *)
(***************************************************************************)
\* TransactionSpendingCondition::clear
TransactionSpendingCondition_clear(self) ==
    IF self.kind = "Singlesig"
    THEN [self EXCEPT !.fee_rate = 0, !.nonce = 0, !.signature = MessageSignature_empty]
    ELSE [self EXCEPT !.fee_rate = 0, !.nonce = 0, !.fields = << >>]

\* TransactionSpendingCondition::new_initial_sighash
new_initial_sighash ==
    Singlesig_of("P2PKH", Hash160_of(0), 0, 0, "Compressed", MessageSignature_empty)

\* the same, clearing the sponsor the auth came with, as TransactionAuth::clear does
into_initial_sighash_auth_clearing_sponsor(self) ==
    IF self.kind = "Standard"
    THEN Standard(TransactionSpendingCondition_clear(self.origin))
    ELSE Sponsored(TransactionSpendingCondition_clear(self.origin),
                   TransactionSpendingCondition_clear(self.sponsor))

\* TransactionAuth::into_initial_sighash_auth
into_initial_sighash_auth(self) ==
    IF self.kind = "Standard"
    THEN Standard(TransactionSpendingCondition_clear(self.origin))
    ELSE Sponsored(TransactionSpendingCondition_clear(self.origin), new_initial_sighash)

\* auths of every kind of origin, signed and not, next to a few sponsors
SighashOrigins ==
    CodecConditions
    \cup {new_initial_sighash,
          Singlesig_of("P2WPKH", Hash160_of(0), 2, u64_MAX, "Compressed",
                       sign(k1, InitialSighash))}

SighashSponsors == CodecPartners \cup {new_initial_sighash}

SighashAuths ==
    {Standard(origin) : origin \in SighashOrigins}
    \cup {Sponsored(origin, sponsor) : origin \in SighashOrigins, sponsor \in SighashSponsors}

SighashInit ==
    /\ AuthPinned
    /\ out = << >>
    /\ \E auth \in SighashAuths : ev = [call |-> "auth", input |-> auth]

IntoInitialSighashAuth ==
    /\ ev.call = "auth"
    /\ ev' = [ev EXCEPT !.call = "into_initial_sighash_auth"]
    /\ out' = into_initial_sighash_auth(ev.input)
    /\ AuthRest

\* the result handed to into_initial_sighash_auth once more
IntoInitialSighashAuthAgain ==
    /\ ev.call = "into_initial_sighash_auth"
    /\ ev' = [call |-> "again", input |-> ev.input, once |-> out]
    /\ out' = into_initial_sighash_auth(out)
    /\ AuthRest

SighashNext == IntoInitialSighashAuth \/ IntoInitialSighashAuthAgain

SighashSpec == SighashInit /\ [][SighashNext]_vars
(***************************************************************************)
(* The coordinator with a count of the signing rounds it has started for   *)
(* block B1.  The calls follow each other directly; ev keeps the count,    *)
(* and what a call sent is counted and not kept.                           *)
(***************************************************************************)
MaxSignRounds == 2

\* the signing rounds a call started for B1: execute_command sends one nonce
\* request over the block for each
SignRoundsStartedBy(s) ==
    Cardinality({i \in DOMAIN s.out.stackerdb :
                    s.out.stackerdb[i] = NonceRequestMsg(serialize_block("B1"))})

Counted(s, call) ==
    [call |-> call, sign_rounds |-> ev.sign_rounds + SignRoundsStartedBy(s)]

Counting(s) ==
    /\ Len(s.commands) <= MaxQueue
    /\ ev.sign_rounds + SignRoundsStartedBy(s) <= MaxSignRounds
    /\ signer_db' = s.signer_db
    /\ state' = s.state
    /\ commands' = s.commands
    /\ coordinator' = s.coordinator
    /\ coordinator_selector' = s.coordinator_selector
    /\ approved_aggregate_public_key' = s.approved_aggregate_public_key
    /\ signing_round' = s.signing_round
    /\ signer_states' = s.signer_states
    /\ out' = NoOutput

\* this signer is the coordinator
RoundsInit ==
    /\ AuthPinned
    /\ signer_states = EmptyStates
    /\ out = NoOutput
    /\ ev = [call |-> "new", sign_rounds |-> 0]

BlocksProposed ==
    \E blocks \in BlockBatches :
        LET s == process_event(Self, Some([type |-> "ProposedBlocks", blocks |-> blocks]),
                               reward_cycle, << "Err" >>, NoLib)
        IN  /\ Counting(s)
            /\ ev' = Counted(s, "proposed_blocks")

BlockValidated ==
    \E kind \in {"Ok", "Reject"} :
        LET event == [type |-> "BlockValidationResponse",
                      response |-> [kind |-> kind,
                                    signer_signature_hash |-> signer_signature_hash("B1")]]
            found == block_lookup(signer_db, signer_signature_hash("B1"))
            replayed == found # None /\ IsSome(Unwrap(found).nonce_request)
        IN  \E expected \in (IF kind = "Ok" /\ found # None
                             THEN ExpectedPool ELSE {<< "Err" >>}),
               lib \in (IF replayed
                        THEN RoundMoves(LibOutcomes(coordinator.state,
                                          << Packet("NonceRequest", Junk, TRUE) >>),
                                        {signing_round})
                        ELSE {NoLib}) :
                LET s == process_event(Self, Some(event), reward_cycle, expected, lib)
                IN  /\ Counting(s)
                    /\ ev' = Counted(s, "block_validation_response")

\* the batches that ask this signer for nonces and that can end a round
RoundBatches ==
    {<< >>, << NR(serialize_block("B1"), TRUE) >>, << SSR(VoteBytes("B1", FALSE), TRUE) >>,
     << Other("SignatureShareResponse") >>}

MessagesArrive ==
    \E messages \in RoundBatches :
        LET event == [type |-> "SignerMessages", signer_set |-> get_signer_set,
                      messages |-> messages]
            packets == verify_packets(Self, messages, << >>).packets
        IN  \E lib \in RoundMoves(LibOutcomes(coordinator.state, packets), {signing_round}) :
                LET s == process_event(Self, Some(event), reward_cycle, << "Err" >>, lib)
                IN  /\ Counting(s)
                    /\ ev' = Counted(s, "signer_messages")

NextCommand ==
    LET runs == state = "Idle" /\ commands # << >>
    IN  \E last_round \in (IF runs /\ Head(commands).type = "Dkg"
                           THEN LastRounds ELSE {<< "Err" >>}),
           started \in (IF runs THEN BOOLEAN ELSE {FALSE}) :
            LET s == process_next_command(Self, last_round, started)
            IN  /\ Counting(s)
                /\ ev' = Counted(s, "process_next_command")

KeyLookedUp ==
    \E approved \in {<< "Err" >>, << "Ok", None >>, << "Ok", Some("key") >>},
       voted \in {"Some", "None"} :
        LET s == update_dkg(Self, approved, None, << >>, voted)
        IN  /\ Counting(s)
            /\ ev' = Counted(s, "update_dkg")

SignQueued ==
    \E command \in {Sign(b, FALSE, None) : b \in SeenBlocks} :
        LET s == [Self EXCEPT !.commands = Append(@, command)]
        IN  /\ Counting(s)
            /\ ev' = Counted(s, "queue_command")

RoundsNext ==
    \/ BlocksProposed
    \/ BlockValidated
    \/ MessagesArrive
    \/ NextCommand
    \/ KeyLookedUp
    \/ SignQueued

RoundsSpec == RoundsInit /\ [][RoundsNext]_vars
(***************************************************************************)
(* Two signers, one per reward cycle, on one store.  Each is the           *)
(* coordinator of its cycle with an approved key; the supervisor lets      *)
(* their handlers interleave, and the store takes one operation            *)
(* (block_lookup, insert_block) at a time.  ev holds, for each signer,     *)
(* where its handler is, the BlockInfo it works on and the entry it last   *)
(* read or wrote.                                                          *)
(***************************************************************************)
Instances == {reward_cycle, reward_cycle + 1}

\* the signer of either cycle, as far as its handlers look at it
Holder(db) ==
    [From_SignerConfig(db, EmptyStates, signer_id)
        EXCEPT !.approved_aggregate_public_key = Some("key")]

Resting == [pc |-> "idle", block_info |-> None, seen |-> None]

SharedInit ==
    /\ AuthPinned
    /\ signer_states = EmptyStates
    /\ out = NoOutput
    /\ ev = [i \in Instances |-> Resting]

Shared(i, local, db) ==
    /\ ev' = [ev EXCEPT ![i] = local]
    /\ signer_db' = db
    /\ UNCHANGED signer_states
    /\ StoreRest

\* the signer of the current cycle handles ProposedBlocks: one insert_block
BlockProposedTo(i) ==
    /\ i = reward_cycle
    /\ ev[i].pc = "idle"
    /\ Shared(i, Resting, handle_proposed_blocks(Holder(signer_db), << "B1" >>).signer_db)

\* handle_block_validate_response up to its block_lookup; a rejected block
\* is marked on the copy
ValidationLooksUp(i) ==
    /\ ev[i].pc = "idle"
    /\ \E kind \in {"Ok", "Reject"} :
        LET found == block_lookup(signer_db, signer_signature_hash("B1"))
        IN  IF found = None THEN Shared(i, Resting, signer_db)
            ELSE IF kind = "Ok"
            THEN Shared(i, [pc |-> "validate", block_info |-> found, seen |-> found],
                        signer_db)
            ELSE Shared(i, [pc |-> "respond",
                            block_info |-> Some([Unwrap(found) EXCEPT !.valid = Some(FALSE)]),
                            seen |-> found],
                        signer_db)

\* the Ok arm: valid is set on the copy and the copy inserted
ValidationStores(i) ==
    /\ ev[i].pc = "validate"
    /\ \E expected \in ExpectedPool :
        LET block_info == Unwrap(ev[i].block_info)
            v == verify_block_transactions(Holder(signer_db), block_info.block, expected)
            validated == [block_info EXCEPT !.valid = Some(v.is_valid)]
        IN  Shared(i, [pc |-> "respond", block_info |-> Some(validated),
                       seen |-> Some(validated)],
                   insert_block(signer_db, validated))

\* the rest of the handler, ending with its insert_block
ValidationResponds(i) ==
    /\ ev[i].pc = "respond"
    /\ Shared(i, Resting,
              respond_to_validation(Holder(signer_db), Unwrap(ev[i].block_info),
                                    NoLib).signer_db)

\* execute_command on a Sign command over B1 up to its block_lookup
SignLooksUp(i) ==
    /\ ev[i].pc = "idle"
    /\ LET found == block_lookup(signer_db, signer_signature_hash("B1"))
           block_info == UnwrapOr(found, BlockInfo_new("B1"))
       IN  IF block_info.signed_over THEN Shared(i, Resting, signer_db)
           ELSE Shared(i, [pc |-> "sign", block_info |-> Some(block_info), seen |-> found],
                       signer_db)

\* the round starts or not; a started round is recorded on the copy and the
\* copy inserted
SignStores(i) ==
    /\ ev[i].pc = "sign"
    /\ \E started \in BOOLEAN :
        Shared(i, Resting,
               IF started
               THEN insert_block(signer_db,
                                 [Unwrap(ev[i].block_info) EXCEPT !.signed_over = TRUE])
               ELSE signer_db)

SharedNext ==
    \E i \in Instances :
        \/ BlockProposedTo(i)
        \/ ValidationLooksUp(i)
        \/ ValidationStores(i)
        \/ ValidationResponds(i)
        \/ SignLooksUp(i)
        \/ SignStores(i)

SharedSpec == SharedInit /\ [][SharedNext]_vars

(***************************************************************************)
(* Properties of the signer, one per claim.                                *)
(***************************************************************************)
h1 == signer_signature_hash("B1")

Cached(db, h) == block_lookup(db, h) # None
Stored(db, h) == Unwrap(block_lookup(db, h))

\* the last call was process_event with an event of this type
Handled(type) == ev.call = "process_event" /\ ev.event.type = type
\* this step is a call of process_event with an event of this type
Handles(type) == ev'.call = "process_event" /\ ev'.event.type = type
\* ... a SignerMessages event of this signer's set
HandlesOwnMessages ==
    Handles("SignerMessages") /\ ev'.event.signer_set = get_signer_set
HandledOwnMessages ==
    Handled("SignerMessages") /\ ev.event.signer_set = get_signer_set

\* C1: once the stored BlockInfo of a hash has signed_over = true, no step
\* leaves a stored BlockInfo of that hash with signed_over = false.
C1_SignedOverNeverCleared ==
    [][\A h \in Hashes :
          (Cached(signer_db, h) /\ Stored(signer_db, h).signed_over)
          => ~(Cached(signer_db', h) /\ ~Stored(signer_db', h).signed_over)]_vars

\* the first half of C2: the request is attached
C2_Attached ==
    (/\ HandlesOwnMessages
     /\ ev'.event.messages = << NR(serialize_block("B1"), TRUE) >>
     /\ Cached(signer_db, h1)
     /\ Stored(signer_db, h1).valid = None)
    => /\ Cached(signer_db', h1)
       /\ Stored(signer_db', h1).nonce_request
              = Some(NonceRequest(serialize_block("B1")))

\* the second half of C2: the attached request is replayed
C2_Replayed ==
    (/\ Handles("BlockValidationResponse")
     /\ Cached(signer_db, ev'.event.response.signer_signature_hash)
     /\ Stored(signer_db, ev'.event.response.signer_signature_hash).nonce_request # None)
    => LET h == ev'.event.response.signer_signature_hash
           rejected == Stored(signer_db', h).valid # Some(TRUE)
       IN  /\ Stored(signer_db', h).nonce_request = None
           /\ out'.signing_round
                  = Some(<< Packet("NonceRequest",
                                   serialize_vote(BlockVote(h, rejected)), TRUE) >>)

\* C2: a verified NonceRequest for a block that is cached but not yet validated
\* is attached to the stored BlockInfo, and the validation response of a block
\* with an attached request feeds that request to the signing round with its
\* message replaced by the serialized vote.
C2_NonceRequestCachedAndReplayed == [][C2_Attached /\ C2_Replayed]_vars

IsRequest(m, type) ==
    m.kind = "Packet" /\ m.packet.verified /\ m.packet.msg.type = type
IsShareRequest(p) == p.msg.type = "SignatureShareRequest"
\* the packets handed to the signing round by this step
Forwarded == Unwrap(out'.signing_round)

\* what C3 asks of one step
C3_Step ==
    HandlesOwnMessages =>
      LET ms == ev'.event.messages
          requests == {i \in DOMAIN ms : IsRequest(ms[i], "SignatureShareRequest")}
          shares == SelectSeq(Forwarded, IsShareRequest)
      IN  /\ Len(shares) <= Cardinality(requests)
          /\ \A i \in DOMAIN shares :
                LET v == read_next_vote(shares[i].msg.message)
                IN  /\ v # None
                    \* with no nonce request after the requests, the vote
                    \* still stored after the step is the one forwarded
                    /\ (/\ \A k \in requests, j \in DOMAIN ms :
                              j > k => ~IsRequest(ms[j], "NonceRequest")
                        /\ Cached(signer_db', Unwrap(v).signer_signature_hash))
                       => Stored(signer_db', Unwrap(v).signer_signature_hash).vote = v
          \* a batch with one request and no nonce request before it: the
          \* store the request is checked against is the one before the step
          /\ \A i \in requests :
                (/\ requests = {i}
                 /\ \A j \in 1..(i - 1) : ~IsRequest(ms[j], "NonceRequest"))
                => LET v == read_next_vote(ms[i].packet.msg.message)
                       h == Unwrap(v).signer_signature_hash
                   IN  IF v # None /\ Cached(signer_db, h) /\ Stored(signer_db, h).vote # None
                       THEN shares = << Packet("SignatureShareRequest",
                                          serialize_vote(Unwrap(Stored(signer_db, h).vote)),
                                          TRUE) >>
                       ELSE shares = << >>

\* C3: a signature share request that passes verify_packet carries the
\* serialized vote cached for its block, whatever its message was; a request
\* whose message is not a block vote, whose hash is not cached or whose block
\* has no recorded vote is dropped.
C3_ShareRequestCarriesCachedVote == [][C3_Step]_vars

\* a request for an accepting vote on B1 was forwarded as the cached rejecting vote
C3_Witness ==
    /\ HandledOwnMessages
    /\ ev.event.messages = << SSR(VoteBytes("B1", FALSE), TRUE) >>
    /\ out.signing_round
          = Some(<< Packet("SignatureShareRequest", VoteBytes("B1", TRUE), TRUE) >>)

\* what C4 asks of one step
C4_Step ==
    ev'.call = "process_next_command" =>
      IF state = "Idle" /\ coordinator_selector.coordinator_id = signer_id
      THEN IF commands # << >>
           THEN commands' = Tail(commands)
           ELSE UNCHANGED << commands, state, coordinator, signer_db >> /\ out' = NoOutput
      ELSE /\ UNCHANGED << commands, state, coordinator, coordinator_selector,
                           signer_db, approved_aggregate_public_key >>
           /\ out' = NoOutput

\* C4: process_next_command takes the head of the queue only when the signer
\* is Idle and is the coordinator; otherwise the queue, the state, the
\* coordinator's rounds and the store stay as they are and nothing is sent.
C4_NextCommandOnlyWhenIdleCoordinator == [][C4_Step]_vars

\* process_next_command was called with a command queued and one in progress
C4_Witness ==
    /\ ev.call = "process_next_command"
    /\ ev.command = None
    /\ state = "OperationInProgress"
    /\ coordinator_selector.coordinator_id = signer_id
    /\ commands # << >>
    /\ out = NoOutput

\* C5: a signer that enters OperationInProgress eventually returns to Idle,
\* also when the other signers stop sending packets.
C5_OperationEventuallyEnds ==
    (state = "OperationInProgress") ~> (state = "Idle")

\* C6: when a batch of packets yields operation results, the signer is Idle
\* afterwards with the time of the last message cleared, and the results
\* were sent on the output channel.
C6_ResultsEndTheOperation ==
    (ev.call = "process_event" /\ ev.results # << >>)
    => /\ state = "Idle"
       /\ coordinator_selector.last_message_time = None
       /\ out.res = << ev.results >>

\* a batch that ended a DKG round in an error was handled
C6_Witness ==
    /\ HandledOwnMessages
    /\ ev.results = << [type |-> "DkgError"] >>
    /\ out.res = << ev.results >>
    /\ state = "Idle"

\* this step is process_next_command executing the head of the queue
ExecutesHead ==
    /\ ev'.call = "process_next_command"
    /\ state = "Idle"
    /\ coordinator_selector.coordinator_id = signer_id
    /\ commands # << >>

\* what C7 asks of one step
C7_Step ==
    (ExecutesHead /\ Head(commands).type = "Sign") =>
      LET block == Head(commands).block
          h == signer_signature_hash(block)
          signed == Cached(signer_db, h) /\ Stored(signer_db, h).signed_over
      IN  /\ signed => /\ UNCHANGED << coordinator, state, signer_db >>
                       /\ out' = NoOutput
          /\ (approved_aggregate_public_key # None /\ ~signed /\ ev'.started)
             => /\ Cached(signer_db', h)
                /\ Stored(signer_db', h).signed_over
                /\ Stored(signer_db', h).block = block
                /\ out'.stackerdb = << NonceRequestMsg(serialize_block(block)) >>
                /\ state' = "OperationInProgress"
          /\ ~ev'.started => UNCHANGED signer_db

C8_Step ==
    (/\ ExecutesHead
     /\ \/ Head(commands).type = "Dkg" /\ approved_aggregate_public_key # None
        \/ Head(commands).type = "Sign" /\ approved_aggregate_public_key = None)
    => /\ UNCHANGED << coordinator, state, signer_db >>
       /\ out' = NoOutput

\* C8: a Dkg command starts no round while a key is approved, a Sign command
\* starts no round while no key is approved; both end without a packet sent
\* and with the coordinator's DKG id and the store unchanged.
C8_NoRoundAgainstTheKey == [][C8_Step]_vars

\* a Dkg command ran with a key approved, the node answering the last round
\* and the library ready to start
C8_Witness ==
    /\ ev.call = "process_next_command"
    /\ ev.command = Some(Dkg)
    /\ ev.started
    /\ ev.last_round[1] = "Ok"
    /\ approved_aggregate_public_key # None
    /\ state = "Idle"
    /\ out = NoOutput

\* what C9 asks of one step
C9_Step ==
    (/\ Handles("BlockValidationResponse")
     /\ Cached(signer_db, ev'.event.response.signer_signature_hash)
     /\ Stored(signer_db, ev'.event.response.signer_signature_hash).nonce_request = None)
    => LET h == ev'.event.response.signer_signature_hash
           found_valid == Stored(signer_db', h).valid = Some(TRUE)
       IN  commands' = IF /\ found_valid
                          /\ ~Stored(signer_db, h).signed_over
                          /\ coordinator_selector.coordinator_id = signer_id
                       THEN Append(commands, Sign(Stored(signer_db, h).block, FALSE, None))
                       ELSE commands

\* C9: on a validation response for a cached block with no pending nonce
\* request, one Sign command for the block (not taproot, no merkle root) is
\* appended to the back of the queue exactly when the block was found valid,
\* is not signed over and this signer is the coordinator; otherwise the queue
\* is unchanged.
C9_SignQueuedOnValidBlock == [][C9_Step]_vars

\* B1 was found valid with no nonce request pending, and its Sign command
\* stands behind the command that was queued already
C9_Witness ==
    /\ Handled("BlockValidationResponse")
    /\ ev.event.response = [kind |-> "Ok", signer_signature_hash |-> h1]
    /\ Cached(signer_db, h1)
    /\ Stored(signer_db, h1).valid = Some(TRUE)
    /\ Stored(signer_db, h1).vote = None
    /\ ~Stored(signer_db, h1).signed_over
    /\ coordinator_selector.coordinator_id = signer_id
    /\ commands = << Dkg, Sign("B1", FALSE, None) >>

\* what C10 asks of one step
C10_Step ==
    (/\ HandlesOwnMessages
     /\ Len(ev'.event.messages) = 1
     /\ IsRequest(ev'.event.messages[1], "NonceRequest"))
    => LET bytes == ev'.event.messages[1].packet.msg.message
           block == read_next_block(bytes)
           h == signer_signature_hash(Unwrap(block))
       IN  IF block = None
           THEN /\ Forwarded = << >>
                /\ UNCHANGED signer_db
                /\ out'.node = << >>
           ELSE IF ~Cached(signer_db, h)
           THEN /\ Forwarded = << >>
                /\ Cached(signer_db', h)
                /\ Stored(signer_db', h).block = Unwrap(block)
                /\ Stored(signer_db', h).nonce_request = Some(NonceRequest(bytes))
                /\ out'.node = << Unwrap(block) >>
           ELSE IF Stored(signer_db, h).valid # None
           THEN LET vote == BlockVote(h, ~Unwrap(Stored(signer_db, h).valid))
                IN  /\ Forwarded = << Packet("NonceRequest", serialize_vote(vote), TRUE) >>
                    /\ Cached(signer_db', h)
                    /\ Stored(signer_db', h) = [Stored(signer_db, h) EXCEPT !.vote = Some(vote)]
                    /\ \A other \in Hashes \ {h} : signer_db'[other] = signer_db[other]
                    /\ out'.node = << >>
           ELSE TRUE

\* C10: a verified nonce request whose message decodes to a block B.  B cached
\* with its validity known: the vote {hash, rejected = ~valid} is recorded and
\* persisted and the packet is forwarded with the serialized vote as its
\* message.  B not cached: a BlockInfo of B is stored with the request
\* attached, B is submitted to the node and the packet is dropped.  A message
\* that is not a block: the packet is dropped and the store is unchanged.
C10_NonceRequestValidated == [][C10_Step]_vars

\* a nonce request for B1, found invalid before, was forwarded as a rejecting vote
C10_Witness ==
    /\ HandledOwnMessages
    /\ ev.event.messages = << NR(serialize_block("B1"), TRUE) >>
    /\ Cached(signer_db, h1)
    /\ Stored(signer_db, h1).valid = Some(FALSE)
    /\ Stored(signer_db, h1).vote = Some(BlockVote(h1, TRUE))
    /\ out.signing_round = Some(<< Packet("NonceRequest", VoteBytes("B1", TRUE), TRUE) >>)

\* the rejections the last call wrote to the bus with one of these reason codes
Rejections(codes) ==
    {out.stackerdb[i] : i \in {j \in DOMAIN out.stackerdb :
                                  /\ out.stackerdb[j].kind = "BlockRejection"
                                  /\ out.stackerdb[j].reason[1] \in codes}}

\* C11: on BlockValidationResponse::Ok for a cached block, the block is
\* recorded valid exactly when a key is approved or every expected
\* transaction is in the block; the rejection broadcast for missing
\* transactions lists exactly the missing ones; when the expected list cannot
\* be fetched the block is recorded invalid and a rejection with reason
\* ConnectivityIssues is broadcast.
C11_ValidIffExpectedTransactionsIncluded ==
    (/\ Handled("BlockValidationResponse")
     /\ ev.event.response.kind = "Ok"
     /\ Cached(signer_db, ev.event.response.signer_signature_hash))
    => LET h == ev.event.response.signer_signature_hash
           fetched == ev.expected[1] = "Ok"
           missing == IF fetched
                      THEN ev.expected[2] \ block_txs(Stored(signer_db, h).block)
                      ELSE {}
           skipped == approved_aggregate_public_key # None
       IN  /\ Stored(signer_db, h).valid = Some(skipped \/ (fetched /\ missing = {}))
           /\ Rejections({"MissingTransactions", "ConnectivityIssues"})
                = IF skipped THEN {}
                  ELSE IF ~fetched THEN {BlockRejection(h, << "ConnectivityIssues" >>)}
                  ELSE IF missing # {}
                       THEN {BlockRejection(h, << "MissingTransactions", missing >>)}
                       ELSE {}

\* B1 holds one of the two expected transactions: it was recorded invalid and
\* the rejection names the other one
C11_Witness ==
    /\ Handled("BlockValidationResponse")
    /\ ev.event.response = [kind |-> "Ok", signer_signature_hash |-> h1]
    /\ ev.expected = << "Ok", {"tx1", "tx2"} >>
    /\ approved_aggregate_public_key = None
    /\ Cached(signer_db, h1)
    /\ Stored(signer_db, h1).valid = Some(FALSE)
    /\ BlockRejection(h1, << "MissingTransactions", {"tx2"} >>)
          \in Rejections({"MissingTransactions"})

\* C12: when a validation response leaves a cached block recorded invalid, a
\* rejection carrying the block's signer signature hash and a reason code was
\* sent to the bus while that event was handled.
C12_InvalidBlockIsRejectedOnTheBus ==
    (/\ Handled("BlockValidationResponse")
     /\ Cached(signer_db, ev.event.response.signer_signature_hash)
     /\ Stored(signer_db, ev.event.response.signer_signature_hash).valid = Some(FALSE))
    => \E r \in Rejections({"ValidationFailed", "MissingTransactions",
                            "ConnectivityIssues"}) :
          r.signer_signature_hash = ev.event.response.signer_signature_hash

\* the node rejected B1 and the rejection went to the bus
C12_Witness ==
    /\ Handled("BlockValidationResponse")
    /\ ev.event.response = [kind |-> "Reject", signer_signature_hash |-> h1]
    /\ Cached(signer_db, h1)
    /\ Stored(signer_db, h1).valid = Some(FALSE)
    /\ BlockRejection(h1, << "ValidationFailed" >>) \in Rejections({"ValidationFailed"})

\* the signing round as the store holds it for this signer and reward cycle
StoredRound(states) == get_signer_state(states, signer_id, reward_cycle)

\* C13: after every packet batch handled by handle_packets (a SignerMessages
\* batch of this signer's set, empty or not, or a replayed nonce request) the
\* store holds the signing round's state under (signer_id, reward_cycle); a
\* signer built later on that store starts its signing round from the stored
\* state, Idle and with an empty command queue.
C13_SigningRoundSavedAndLoaded ==
    [][/\ (\/ HandlesOwnMessages
           \/ /\ Handles("BlockValidationResponse")
              /\ Cached(signer_db, ev'.event.response.signer_signature_hash)
              /\ Stored(signer_db, ev'.event.response.signer_signature_hash).nonce_request
                    # None)
          => StoredRound(signer_states') = Some(save(signing_round'))
       /\ ev'.call = "new"
          => /\ signing_round' = IF StoredRound(signer_states) # None
                                 THEN load(Unwrap(StoredRound(signer_states)))
                                 ELSE "fresh"
             /\ state' = "Idle"
             /\ commands' = << >>
             /\ UNCHANGED << signer_db, signer_states >>]_vars

\* a signer built on the store of one that cached B1 and whose signing round
\* had moved: it is Idle and its round is the stored one
C13_Witness ==
    /\ ev.call = "new"
    /\ signing_round = "r1"
    /\ StoredRound(signer_states) = Some(save("r1"))
    /\ Cached(signer_db, h1)
    /\ state = "Idle"
    /\ commands = << >>

\* this step handles an event the signer ignores
IgnoresEvent ==
    /\ ev'.call = "process_event"
    /\ \/ ev'.event.type = "SignerMessages" /\ ev'.event.signer_set # get_signer_set
       \/ /\ ev'.event.type = "ProposedBlocks"
          /\ ev'.current_reward_cycle # reward_cycle
       \/ ev'.event.type = "StatusCheck"
       \/ ev'.event.type = "None"
       \/ /\ ev'.event.type = "BlockValidationResponse"
          /\ ~Cached(signer_db, ev'.event.response.signer_signature_hash)

\* C14: a SignerMessages event for another signer set, a ProposedBlocks event
\* while the signer's reward cycle is not the current one, a StatusCheck, an
\* absent event and a validation response for a hash that is not cached leave
\* the signer's state, its command queue and the store unchanged and send
\* nothing to the bus or the node.
C14_IgnoredEventsChangeNothing ==
    [][IgnoresEvent
       => /\ UNCHANGED << signer_db, signer_states, signing_round, state, commands,
                          coordinator, coordinator_selector,
                          approved_aggregate_public_key >>
          /\ out' = NoOutput]_vars

\* a nonce request for B1 came for the other signer set: B1 is not cached
C14_Witness ==
    /\ Handled("SignerMessages")
    /\ ev.event.signer_set # get_signer_set
    /\ ev.event.messages = << NR(serialize_block("B1"), TRUE) >>
    /\ ~Cached(signer_db, h1)
    /\ out = NoOutput

\* what the coordinator role sends: its packets, and the broadcasts made for
\* its operation results
CoordinatorLevel(m) ==
    \/ m = CoordinatorOutMsg
    \/ m.kind = "BlockResponse"
    \/ m.kind = "Transactions"
    \/ m.kind = "BlockRejection" /\ m.reason = << "SignError" >>

\* C15: within one packet batch, the packets of the signing-round role are
\* written to the bus before any packet of the coordinator role and before
\* any broadcast made for the coordinator's operation results (block
\* response, block rejection, vote transaction).
C15_SigningRoundPacketsFirst ==
    \A i, j \in DOMAIN out.stackerdb :
        (out.stackerdb[j] = SignerOutMsg /\ CoordinatorLevel(out.stackerdb[i]))
        => j < i

\* the part of C15 that is about packets only
C15_PacketsInRoleOrder ==
    \A i, j \in DOMAIN out.stackerdb :
        (out.stackerdb[j] = SignerOutMsg /\ out.stackerdb[i] = CoordinatorOutMsg)
        => j < i

\* the last call processed the result of a successful DKG and built the vote
DkgVoteBuilt ==
    /\ ev.call = "process_event"
    /\ Len(ev.results) = 1
    /\ ev.results[1].type = "Dkg"
    /\ ev.results[1].built

VoteOnBus == \E i \in DOMAIN out.stackerdb : out.stackerdb[i].kind = "Transactions"
VoteInMempool == out.mempool # << >>

\* C16 as it is stated: the vote built from a successful DKG result goes to
\* the bus only when the epoch is 3.0 or later, to the mempool and the bus
\* when it is 2.5, to neither when it is earlier.
C16_VoteBroadcastByEpoch ==
    DkgVoteBuilt
    => LET epoch == ev.results[1].epoch
       IN  /\ epoch >= 30 => VoteOnBus /\ ~VoteInMempool
           /\ epoch = 25 => VoteOnBus /\ VoteInMempool
           /\ epoch < 25 => ~VoteOnBus /\ ~VoteInMempool

\* C16, amended: with an aggregate key approved the vote goes nowhere.  With
\* none approved it goes to the bus only when the epoch is 3.0 or later; when
\* the epoch is 2.5 it is submitted to the mempool and goes to the bus only
\* if the node accepts it; it goes to neither when the epoch is earlier.
C16_VoteBroadcastByEpochWithoutKey ==
    DkgVoteBuilt
    => LET epoch == ev.results[1].epoch
           accepted == ev.results[1].mempool_ok
       IN  IF approved_aggregate_public_key # None
           THEN ~VoteOnBus /\ ~VoteInMempool
           ELSE /\ epoch >= 30 => VoteOnBus /\ ~VoteInMempool
                /\ epoch = 25 => /\ VoteInMempool <=> accepted
                                 /\ VoteOnBus <=> accepted
                /\ epoch < 25 => ~VoteOnBus /\ ~VoteInMempool

\* a vote built in epoch 2.5 with no key approved went to the mempool and the bus
C16_Witness ==
    /\ DkgVoteBuilt
    /\ ev.results[1].epoch = 25
    /\ approved_aggregate_public_key = None
    /\ VoteOnBus
    /\ VoteInMempool

\* the vote transaction the last call sent to the bus
VoteSent ==
    LET i == CHOOSE i \in DOMAIN out.stackerdb : out.stackerdb[i].kind = "Transactions"
        txs == out.stackerdb[i].txs
    IN  txs[Len(txs)]

Max(a, b) == IF a >= b THEN a ELSE b

\* C17 as it is stated: the nonce of the vote is the larger of the slot
\* transaction's nonce plus one and the account nonce; the account nonce when
\* the slot is empty.
C17_VoteNonceIsMax ==
    DkgVoteBuilt /\ VoteOnBus
    => LET r == ev.results[1]
       IN  VoteSent.nonce = IF r.signer_transactions = << >> THEN r.account_nonce
                            ELSE Max(Head(r.signer_transactions).nonce + 1, r.account_nonce)

\* C17, amended: the nonce of the vote is the nonce of the first transaction
\* kept from the slot plus one, wrapping at the width of the nonce, whatever
\* the account nonce; the account nonce when the slot is empty.
C17_VoteNonceFollowsSlot ==
    DkgVoteBuilt /\ VoteOnBus
    => LET r == ev.results[1]
       IN  VoteSent.nonce = IF r.signer_transactions = << >> THEN r.account_nonce
                            ELSE (Head(r.signer_transactions).nonce + 1) % (u64_MAX + 1)

\* a vote was sent while the slot held a transaction whose nonce plus one is
\* below the account nonce
C17_Witness ==
    /\ DkgVoteBuilt
    /\ VoteOnBus
    /\ ev.results[1].signer_transactions # << >>
    /\ Head(ev.results[1].signer_transactions).nonce + 1 < ev.results[1].account_nonce
    /\ VoteSent.nonce = 1

\* what the two tables answer for every key
BlocksAnswer(db) == [h \in Hashes |-> block_lookup(db, h)]
StatesAnswer(states) == [k \in StateKeys |-> get_signer_state(states, k[1], k[2])]

C18_Step ==
    /\ ev'.call = "insert_block"
       => LET block_info == ev'.block_info
              hash == signer_signature_hash(block_info.block)
          IN  /\ BlocksAnswer(signer_db') =
                     [BlocksAnswer(signer_db) EXCEPT ![hash] = Some(block_info)]
              /\ insert_block(signer_db', block_info) = signer_db'
              /\ StatesAnswer(signer_states') = StatesAnswer(signer_states)
    /\ ev'.call = "remove_block"
       => /\ BlocksAnswer(signer_db') =
                 [BlocksAnswer(signer_db) EXCEPT ![ev'.hash] = None]
          /\ ~Cached(signer_db, ev'.hash) => signer_db' = signer_db
          /\ StatesAnswer(signer_states') = StatesAnswer(signer_states)
    /\ ev'.call = "block_lookup"
       => /\ ev'.result = BlocksAnswer(signer_db)[ev'.hash]
          /\ signer_db' = signer_db /\ signer_states' = signer_states
    /\ ev'.call = "insert_signer_state"
       => LET signer_state == ev'.signer_state
              key == << signer_state.id, ev'.reward_cycle >>
          IN  /\ StatesAnswer(signer_states') =
                     [StatesAnswer(signer_states) EXCEPT ![key] = Some(signer_state)]
              /\ insert_signer_state(signer_states', ev'.reward_cycle, signer_state)
                     = signer_states'
              /\ BlocksAnswer(signer_db') = BlocksAnswer(signer_db)
    /\ ev'.call = "delete_signer_state"
       => /\ StatesAnswer(signer_states') =
                 [StatesAnswer(signer_states) EXCEPT ![ev'.key] = None]
          /\ StatesAnswer(signer_states)[ev'.key] = None
                 => signer_states' = signer_states
          /\ BlocksAnswer(signer_db') = BlocksAnswer(signer_db)
    /\ ev'.call = "get_signer_state"
       => /\ ev'.result = StatesAnswer(signer_states)[ev'.key]
          /\ signer_db' = signer_db /\ signer_states' = signer_states

\* C18: both tables are key-value maps.  An insert makes its key answer the
\* inserted value and changes the answer of no other key of either table; a
\* second insert of the same value leaves the stored rows as they are; a
\* remove or delete makes its key answer none, changes no other key, and
\* changes nothing at all when the key was absent; a lookup answers what the
\* table holds for exactly that key and changes nothing.
C18_TablesAreMaps == [][C18_Step]_vars

\* a block was inserted over an earlier, different row for the same hash,
\* while the other hash has a row and the states table has one too
C18_Witness ==
    /\ ev.call = "insert_block"
    /\ \A h \in Hashes : Cached(signer_db, h)
    /\ Stored(signer_db, signer_signature_hash(ev.block_info.block)) = ev.block_info
    /\ ev.block_info.signed_over
    /\ \E k \in StateKeys : StatesAnswer(signer_states)[k] # None

\* make_distribution returned a distribution
Distributed == ev.call = "make_distribution" /\ ~out.panicked

\* C19: in a distribution that is not empty the first range starts at 0, the
\* last ends at the largest Uint256 and each range starts where the one
\* before it ends; a single sample spans the whole range whatever its burn.
C19_RangesCoverTheHashSpace ==
    Distributed /\ out.burn_sample # << >>
    => LET sample == out.burn_sample
       IN  /\ sample[1].range_start = 0
           /\ sample[Len(sample)].range_end = Uint256_max
           /\ \A i \in 2..Len(sample) : sample[i].range_start = sample[i - 1].range_end
           /\ \A i \in DOMAIN sample : sample[i].range_start <= sample[i].range_end
           /\ Len(sample) = 1 => sample[1].range_start = 0 /\ sample[1].range_end = Uint256_max

\* three samples, the first one with user burns, whose shares are not whole
C19_Witness ==
    /\ Distributed
    /\ Len(out.burn_sample) = 3
    /\ out.burn_sample[1].user_burns # << >>
    /\ out.burn_sample[1].range_end \notin {0, Uint256_max}
    /\ out.burn_sample[2].range_end \notin {out.burn_sample[1].range_end, Uint256_max}

\* C20 as it is stated: every sample of a distribution has its range_start
\* strictly below its range_end.
C20_EveryRangeNonEmpty ==
    Distributed
    => \A i \in DOMAIN out.burn_sample :
           out.burn_sample[i].range_start < out.burn_sample[i].range_end

\* C20, amended: a sample has its range_start strictly below its range_end
\* exactly when it is the only sample or its burns are not zero; a sample
\* with zero burns next to others has an empty range.
C20_RangeNonEmptyIffBurns ==
    Distributed
    => \A i \in DOMAIN out.burn_sample :
           LET point == out.burn_sample[i]
           IN  IF Len(out.burn_sample) = 1 \/ point.burns > 0
               THEN point.range_start < point.range_end
               ELSE point.range_start = point.range_end

\* a distribution of several samples, with and without burns
C20_Witness ==
    /\ Distributed
    /\ \E i, j \in DOMAIN out.burn_sample :
           /\ out.burn_sample[i].burns = 0
           /\ out.burn_sample[j].burns = 1
           /\ out.burn_sample[j].range_start < out.burn_sample[j].range_end

\* the sum of the burn fees of a list of operations
RECURSIVE SumFees(_)
SumFees(ops) == IF ops = << >> THEN 0 ELSE Head(ops).burn_fee + SumFees(Tail(ops))

\* the sum of the burns of a list of samples
RECURSIVE SumBurns(_)
SumBurns(sample) == IF sample = << >> THEN 0 ELSE Head(sample).burns + SumBurns(Tail(sample))

\* the user burn names the VRF key and the block of the sample
Supports(user_burn, point) ==
    /\ user_burn.public_key = point.key.public_key
    /\ user_burn.block_header_hash_160 =
           Hash160_from_sha256(point.candidate.block_header_hash)

\* the user burns given to make_distribution that support one of its samples
Matched ==
    LET IsMatched(user_burn) ==
            \E i \in DOMAIN out.burn_sample : Supports(user_burn, out.burn_sample[i])
    IN  SelectSeq(ev.user_burns, IsMatched)

\* C21: the burns of every sample are the fee of its commit plus the fees of
\* the user burns attached to it, every attached user burn supports the
\* sample, and the fees of user burns that support no sample are in no
\* sample's burns.
C21_BurnsAreCommitPlusAttached ==
    Distributed
    => /\ \A i \in DOMAIN out.burn_sample :
              LET point == out.burn_sample[i]
              IN  /\ point.burns = point.candidate.burn_fee + SumFees(point.user_burns)
                  /\ \A j \in DOMAIN point.user_burns : Supports(point.user_burns[j], point)
       /\ SumBurns(out.burn_sample) = SumFees(ev.block_candidates) + SumFees(Matched)

\* a sample with two user burns attached, when a user burn for no block was given
C21_Witness ==
    /\ Distributed
    /\ Len(out.burn_sample) >= 2
    /\ Len(out.burn_sample[1].user_burns) = 2
    /\ out.burn_sample[1].burns = out.burn_sample[1].candidate.burn_fee + 6
    /\ Len(Matched) < Len(ev.user_burns)

\* C22: the distribution has one sample for each commit, in the order of the
\* commits, with the leader key the commit points to, and the user burns of
\* a sample are the given user burns that support it, in the order given.
C22_OneSamplePerCommitInOrder ==
    Distributed
    => /\ Len(out.burn_sample) = Len(ev.block_candidates)
       /\ \A i \in DOMAIN out.burn_sample :
              LET point == out.burn_sample[i]
                  bc == ev.block_candidates[i]
                  SupportsPoint(user_burn) == Supports(user_burn, point)
              IN  /\ point.candidate = bc
                  /\ \E k \in DOMAIN ev.consumed_leader_keys :
                         point.key = ev.consumed_leader_keys[k]
                  /\ point.key.block_number = bc.block_number - bc.key_block_backptr
                  /\ point.key.vtxindex = bc.key_vtxindex
                  /\ point.user_burns = SelectSeq(ev.user_burns, SupportsPoint)

\* three samples; user burns of different fees for the first, one for the
\* second between them, one for no block dropped
C22_Witness ==
    /\ Distributed
    /\ Len(out.burn_sample) = 3
    /\ Len(out.burn_sample[1].user_burns) = 2
    /\ out.burn_sample[1].user_burns[1].burn_fee # out.burn_sample[1].user_burns[2].burn_fee
    /\ Len(out.burn_sample[2].user_burns) = 1
    /\ Len(ev.user_burns) = 4

\* what the given operations break
LengthsDiffer == Len(ev.block_candidates) # Len(ev.consumed_leader_keys)
HeightsDiffer ==
    /\ ev.block_candidates # << >>
    /\ \/ \E i \in DOMAIN ev.block_candidates :
              ev.block_candidates[i].block_number # ev.block_candidates[1].block_number
       \/ \E i \in DOMAIN ev.user_burns :
              ev.user_burns[i].block_number # ev.block_candidates[1].block_number
KeysRepeat ==
    \E i, j \in DOMAIN ev.consumed_leader_keys :
        /\ i # j
        /\ ev.consumed_leader_keys[i].block_number = ev.consumed_leader_keys[j].block_number
        /\ ev.consumed_leader_keys[i].vtxindex = ev.consumed_leader_keys[j].vtxindex
KeyMissing ==
    \E i \in DOMAIN ev.block_candidates :
        \A k \in DOMAIN ev.consumed_leader_keys :
            \/ ev.consumed_leader_keys[k].block_number #
                   ev.block_candidates[i].block_number
                       - ev.block_candidates[i].key_block_backptr
            \/ ev.consumed_leader_keys[k].vtxindex # ev.block_candidates[i].key_vtxindex

\* C23 as it is stated: make_distribution panics whenever the commits and
\* the keys differ in number, an operation is at another height than the
\* first commit, two keys are at the same place, or a commit points to no key.
C23_BrokenOperationsPanic ==
    ev.call = "make_distribution"
    => (LengthsDiffer \/ HeightsDiffer \/ KeysRepeat \/ KeyMissing => out.panicked)

\* C23, amended: given at least one commit, make_distribution panics whenever
\* the commits and the keys differ in number, an operation is at another
\* height than the first commit, two keys are at the same place, or a commit
\* points to no key; given no commit it returns the empty distribution
\* whatever the keys and the user burns are.
C23_BrokenOperationsPanicUnlessEmpty ==
    ev.call = "make_distribution"
    => IF ev.block_candidates = << >>
       THEN ~out.panicked /\ out.burn_sample = << >>
       ELSE LengthsDiffer \/ HeightsDiffer \/ KeysRepeat \/ KeyMissing => out.panicked

\* a panic for a user burn at another height, everything else in order
C23_Witness ==
    /\ ev.call = "make_distribution"
    /\ out.panicked
    /\ HeightsDiffer
    /\ \A i \in DOMAIN ev.block_candidates :
           ev.block_candidates[i].block_number = ev.block_candidates[1].block_number
    /\ ~LengthsDiffer /\ ~KeysRepeat /\ ~KeyMissing

\* C24: get_total_burns answers none exactly when the burns of the samples
\* sum to 2^64 - 1 or more, and the sum itself otherwise; the sum it
\* accumulates is the sum of the burns, not a wrapped one.
C24_TotalBurnsBelowMax ==
    ev.call = "get_total_burns"
    => /\ out.total = IF SumBurns(out.burn_sample) >= 2 ^ U64Bits - 1 THEN None
                      ELSE Some(SumBurns(out.burn_sample))
       /\ fold_burns(out.burn_sample) = SumBurns(out.burn_sample)

\* the samples sum to exactly 2^64 - 1 and the answer is none
C24_Witness ==
    /\ ev.call = "get_total_burns"
    /\ SumBurns(out.burn_sample) = 2 ^ U64Bits - 1
    /\ out.total = None

\* C25: next_verification of the signature next_signature made, under the
\* encoding of the signing key, recovers the public key of that key and gives
\* the same next sighash, which is the hash of the presign hash (the hash of
\* the previous sighash, the auth flag, the fee rate and the nonce, both big
\* endian), the key encoding and the signature.
C25_VerificationFollowsSignature ==
    [][(ev'.call = "next_verification"
        /\ ev'.key_encoding = encoding_of(ev'.input.privk))
       => LET i == ev'.input
              presign == Txid_from_sighash_bytes(
                             << i.cur_sighash, i.cond_code >>
                             \o to_be_bytes(i.fee_rate) \o to_be_bytes(i.nonce))
          IN  /\ is_ok(out')
              /\ out'[2].pubk = StacksPublicKey_from_private(i.privk)
              /\ out'[2].next_sighash = ev'.signed.next_sighash
              /\ out'[2].next_sighash =
                     Txid_from_sighash_bytes(
                         << presign, ev'.key_encoding, ev'.signed.sig >>)]_vars

C25_Witness ==
    /\ ev.call = "next_verification"
    /\ ev.key_encoding = encoding_of(ev.input.privk)
    /\ ev.key_encoding = "Uncompressed"
    /\ ev.input.cur_sighash # InitialSighash
    /\ ev.input.fee_rate = 1
    /\ ev.input.cond_code = "AuthSponsored"
    /\ is_ok(out)

\* the signature fields among the fields, and the sighash they leave when
\* each of them hashes the sighash before it with the flag, the fee rate and
\* the nonce, and then that hash with its encoding and its signature
NumSignatureFields(fields) ==
    Cardinality({i \in 1..Len(fields) : fields[i].id = "Signature"})

RECURSIVE RollingSighash(_, _, _, _, _)
RollingSighash(fields, cur_sighash, cond_code, fee_rate, nonce) ==
    IF fields = << >> THEN cur_sighash
    ELSE IF Head(fields).id = "PublicKey"
         THEN RollingSighash(Tail(fields), cur_sighash, cond_code, fee_rate, nonce)
         ELSE RollingSighash(
                  Tail(fields),
                  Txid_from_sighash_bytes(
                      << Txid_from_sighash_bytes(
                             << cur_sighash, cond_code >>
                             \o to_be_bytes(fee_rate) \o to_be_bytes(nonce)),
                         Head(fields).key_encoding, Head(fields).sig >>),
                  cond_code, fee_rate, nonce)

\* the keys of the fields in order: a public-key field's key, a signature
\* field's key with the compression its encoding declares
RECURSIVE CollectedKeys(_, _, _, _, _)
CollectedKeys(fields, cur_sighash, cond_code, fee_rate, nonce) ==
    IF fields = << >> THEN << >>
    ELSE IF Head(fields).id = "PublicKey"
         THEN << Head(fields).pubkey >>
              \o CollectedKeys(Tail(fields), cur_sighash, cond_code, fee_rate, nonce)
         ELSE LET presign == make_sighash_presign(cur_sighash, cond_code, fee_rate, nonce)
                  recovered == recover_to_pubkey(presign, Head(fields).sig)
              IN  << [key |-> IF is_ok(recovered) THEN recovered[2].key ELSE "none",
                      compressed |-> Head(fields).key_encoding = "Compressed"] >>
                  \o CollectedKeys(
                         Tail(fields),
                         RollingSighash(<< Head(fields) >>, cur_sighash, cond_code,
                                        fee_rate, nonce),
                         cond_code, fee_rate, nonce)

MultisigVerified == ev.call = "verify" /\ ev.input.cond.kind = "Multisig"

\* C26: multisig verification returns a sighash only when the number of
\* signature fields equals signatures_required and the address hash of the
\* keys of all fields, in order, under the hash mode equals the signer, and
\* the sighash it returns is the initial one advanced once for each signature
\* field in order and not for public-key fields; otherwise it returns a
\* VerifyingError.
C26_MultisigVerifyWalksTheFields ==
    MultisigVerified
    => LET c == ev.input.cond
           i == ev.input
       IN  IF is_ok(out)
           THEN /\ out[2] = RollingSighash(c.fields, i.initial_sighash, i.cond_code,
                                           c.fee_rate, c.nonce)
                /\ NumSignatureFields(c.fields) = c.signatures_required
                /\ c.signer =
                       public_keys_to_address_hash(
                           to_address_hash_mode(c.hash_mode), c.signatures_required,
                           CollectedKeys(c.fields, i.initial_sighash, i.cond_code,
                                         c.fee_rate, c.nonce))
           ELSE out = Err("VerifyingError")

\* two signatures with a public key between or around them, verified
C26_Witness ==
    /\ MultisigVerified
    /\ is_ok(out)
    /\ NumSignatureFields(ev.input.cond.fields) = 2

\* a public key and a signature short of the two required, refused
C26_WitnessRefused ==
    /\ MultisigVerified
    /\ ~is_ok(out)
    /\ Len(ev.input.cond.fields) = 2
    /\ NumSignatureFields(ev.input.cond.fields) = 1
    /\ ev.input.cond.signatures_required = 2

ConditionVerified == ev.call = "verify"

\* a field that holds or declares an uncompressed key
UncompressedField(field) ==
    IF field.id = "PublicKey" THEN ~field.pubkey.compressed
    ELSE field.key_encoding = "Uncompressed"

HasUncompressedKey(cond) ==
    IF cond.kind = "Singlesig" THEN cond.key_encoding = "Uncompressed"
    ELSE \E i \in 1..Len(cond.fields) : UncompressedField(cond.fields[i])

\* C27: verification fails for a P2WPKH condition whose key encoding is
\* uncompressed and for a P2WSH condition that has an uncompressed public-key
\* field or a signature field declaring the uncompressed encoding.
C27_SegwitRefusesUncompressedKeys ==
    (/\ ConditionVerified
     /\ ev.input.cond.hash_mode \in {"P2WPKH", "P2WSH"}
     /\ HasUncompressedKey(ev.input.cond))
    => out = Err("VerifyingError")

\* a P2WPKH condition refused for its encoding alone: it is signed over the
\* sighash and the flag it is verified with, and its signer is the hash of
\* the uncompressed key
C27_Witness ==
    /\ ConditionVerified
    /\ ev.input.cond.kind = "Singlesig"
    /\ ev.input.cond.hash_mode = "P2WPKH"
    /\ ev.input.cond.key_encoding = "Uncompressed"
    /\ ev.input.cond.signature.over =
           make_sighash_presign(ev.input.initial_sighash, ev.input.cond_code,
                                ev.input.cond.fee_rate, ev.input.cond.nonce)
    /\ ev.input.cond.signer =
           public_keys_to_address_hash("SerializeP2WPKH", 1,
                                       << [key |-> "k1", compressed |-> FALSE] >>)
    /\ ~is_ok(out)

\* a P2WSH condition refused for one uncompressed public key next to a good
\* signature, the signature count and the signer being right
C27_WitnessMultisig ==
    /\ ConditionVerified
    /\ ev.input.cond.hash_mode = "P2WSH"
    /\ Len(ev.input.cond.fields) = 2
    /\ NumSignatureFields(ev.input.cond.fields) = 1
    /\ ev.input.cond.signatures_required = 1
    /\ HasUncompressedKey(ev.input.cond)
    /\ ev.input.cond.signer =
           public_keys_to_address_hash(
               "SerializeP2WSH", 1,
               CollectedKeys(ev.input.cond.fields, ev.input.initial_sighash,
                             ev.input.cond_code, ev.input.cond.fee_rate,
                             ev.input.cond.nonce))
    /\ ~is_ok(out)

SwappedVerified == ev.call = "auth_verify_swapped"

OriginVerifies(auth, sighash) ==
    is_ok(TransactionSpendingCondition_verify(auth.origin, sighash, "AuthStandard"))

\* the sponsor verifies under the sponsored flag against the sighash the
\* origin's signatures left
SponsorVerifies(auth, sighash) ==
    is_ok(TransactionSpendingCondition_verify(
              auth.sponsor,
              RollingSighash(IF auth.origin.kind = "Singlesig"
                             THEN << SignatureField(auth.origin.key_encoding,
                                                    auth.origin.signature) >>
                             ELSE auth.origin.fields,
                             sighash, "AuthStandard", auth.origin.fee_rate,
                             auth.origin.nonce),
              "AuthSponsored"))

HasSignature(cond) ==
    cond.kind = "Singlesig" \/ NumSignatureFields(cond.fields) > 0

\* C28 as it is stated: a sponsored auth verifies only if its origin verifies
\* against the initial sighash under the standard flag and its sponsor
\* against the origin's final sighash under the sponsored flag, and an auth
\* that verifies does not verify with origin and sponsor swapped.
C28_SponsoredVerifiesInOrderOnly ==
    SwappedVerified
    => (is_ok(ev.verified)
        => /\ OriginVerifies(ev.input.auth, ev.input.initial_sighash)
           /\ SponsorVerifies(ev.input.auth, ev.input.initial_sighash)
           /\ ~is_ok(out))

\* C28, amended: a sponsored auth verifies only if its origin verifies
\* against the initial sighash under the standard flag and its sponsor
\* against the origin's final sighash under the sponsored flag, and an auth
\* that verifies and has a signature in its origin or in its sponsor does not
\* verify with origin and sponsor swapped.
C28_SignedSponsoredVerifiesInOrderOnly ==
    SwappedVerified
    => (is_ok(ev.verified)
        => /\ OriginVerifies(ev.input.auth, ev.input.initial_sighash)
           /\ SponsorVerifies(ev.input.auth, ev.input.initial_sighash)
           /\ (HasSignature(ev.input.auth.origin) \/ HasSignature(ev.input.auth.sponsor))
              => ~is_ok(out))

\* an origin of two signatures and a single-signature sponsor, verified, and
\* refused when swapped
C28_Witness ==
    /\ SwappedVerified
    /\ is_ok(ev.verified)
    /\ ev.input.auth.origin.kind = "Multisig"
    /\ NumSignatureFields(ev.input.auth.origin.fields) = 2
    /\ ev.input.auth.sponsor.kind = "Singlesig"
    /\ ~is_ok(out)

\* an auth of two conditions without signatures, verified either way round
C28_WitnessUnsigned ==
    /\ SwappedVerified
    /\ is_ok(ev.verified)
    /\ is_ok(out)

Deserialized == ev.call = "consensus_deserialize"

\* the invariants of a condition: a compressed key under P2WPKH, only
\* compressed keys under P2WSH, and as many signature fields as required
KeepsInvariants(cond) ==
    IF cond.kind = "Singlesig"
    THEN cond.hash_mode = "P2WPKH" => cond.key_encoding = "Compressed"
    ELSE /\ cond.hash_mode = "P2WSH" => ~HasUncompressedKey(cond)
         /\ NumSignatureFields(cond.fields) = cond.signatures_required

Valid(value) ==
    CASE value.kind = "Standard" -> KeepsInvariants(value.origin)
      [] value.kind = "Sponsored" ->
            KeepsInvariants(value.origin) /\ KeepsInvariants(value.sponsor)
      [] OTHER -> KeepsInvariants(value)

\* C29 as it is stated: deserializing the bytes of any spending condition or
\* auth gives the value back and moves the read index by their length.
C29_RoundTrip ==
    (Deserialized /\ ~ev.overwritten)
    => /\ out.result = Ok(ev.input)
       /\ out.index_ptr = ev.index_ptr + Len(ev.bytes)

\* C29, amended: deserializing the bytes of a spending condition that keeps
\* the invariants of its hash mode and its signature count, or of an auth of
\* such conditions, gives the value back and moves the read index by the
\* length of the bytes.
C29_RoundTripOfValidValues ==
    (Deserialized /\ ~ev.overwritten /\ Valid(ev.input))
    => /\ out.result = Ok(ev.input)
       /\ out.index_ptr = ev.index_ptr + Len(ev.bytes)

\* a sponsored auth read back from the middle of a buffer, its origin a P2SH
\* condition of an uncompressed signature and an uncompressed key
C29_Witness ==
    /\ Deserialized
    /\ ~ev.overwritten
    /\ ev.input.kind = "Sponsored"
    /\ ev.input.origin.kind = "Multisig"
    /\ ev.input.origin.fields =
           << SignatureField("Uncompressed", MessageSignature_from_raw(254)),
              PublicKeyField([key |-> "k2", compressed |-> FALSE]) >>
    /\ ev.input.origin.signatures_required = 1
    /\ Valid(ev.input)
    /\ ev.index_ptr = 1
    /\ is_ok(out.result)

\* the cells of a serialized condition: hash mode, signer, nonce, fee rate,
\* and then the encoding and the signature, or the number of fields, the
\* fields with their ids and the signatures required
SerializedLength(cond) ==
    IF cond.kind = "Singlesig" THEN 2 + 2 * U64Bits + 2
    ELSE 2 + 2 * U64Bits + 1 + 2 * Len(cond.fields) + 1

\* C30: deserializing a spending condition gives an error and leaves the read
\* index where it was when the hash mode byte is unknown, when a P2WPKH
\* condition declares the uncompressed encoding, when a P2WSH condition has
\* an uncompressed public key or signature field, and when a multisig
\* condition has more or fewer signature fields than signatures_required;
\* such a condition is serialized all the same.
C30_BrokenConditionsAreNotRead ==
    (/\ Deserialized
     /\ is_condition(ev.input)
     /\ ev.overwritten \/ ~KeepsInvariants(ev.input))
    => /\ ~is_ok(out.result)
       /\ out.index_ptr = ev.index_ptr
       /\ Len(ev.bytes) = SerializedLength(ev.input)
       /\ ev.overwritten \/ ev.bytes[1] = ev.input.hash_mode

\* a P2WSH condition with the right number of signatures and one
\* uncompressed public key, refused in the middle of a buffer
C30_Witness ==
    /\ Deserialized
    /\ ~ev.overwritten
    /\ ev.input.kind = "Multisig"
    /\ ev.input.hash_mode = "P2WSH"
    /\ NumSignatureFields(ev.input.fields) = ev.input.signatures_required
    /\ HasUncompressedKey(ev.input)
    /\ ev.index_ptr = 1
    /\ ~is_ok(out.result)

C30_WitnessHashMode == Deserialized /\ ev.overwritten /\ ~is_ok(out.result)

C30_WitnessSinglesig ==
    /\ Deserialized
    /\ ~ev.overwritten
    /\ ev.input.kind = "Singlesig"
    /\ ev.input.hash_mode = "P2WPKH"
    /\ ev.input.key_encoding = "Uncompressed"
    /\ ~is_ok(out.result)

C30_WitnessCount ==
    /\ Deserialized
    /\ ~ev.overwritten
    /\ ev.input.kind = "Multisig"
    /\ ev.input.hash_mode = "P2SH"
    /\ NumSignatureFields(ev.input.fields) = 2
    /\ ev.input.signatures_required = 1
    /\ ~is_ok(out.result)

(***************************************************************************)
(* The initial-sighash auth.                                               *)
(***************************************************************************)
\* what of an auth its initial-sighash auth may still depend on: the tag and
\* the origin's kind, hash mode, signer, key encoding or signature count
SameCommitment(a, b) ==
    /\ a.kind = b.kind
    /\ a.origin.kind = b.origin.kind
    /\ a.origin.hash_mode = b.origin.hash_mode
    /\ a.origin.signer = b.origin.signer
    /\ IF a.origin.kind = "Singlesig"
       THEN a.origin.key_encoding = b.origin.key_encoding
       ELSE a.origin.signatures_required = b.origin.signatures_required

\* C31: into_initial_sighash_auth gives an auth of the same tag whose origin
\* keeps its hash mode and signer with nonce = fee_rate = 0 and no signature
\* or fields, whose sponsor (if sponsored) is the sentinel P2PKH condition
\* with all-zero signer, zero nonce and fee rate and empty signature; every
\* auth that differs only in its sponsor or in the origin's nonce, fee rate,
\* signature or fields gives the same result, and so does applying it twice.
C31_InitialSighashAuthIsCanonical ==
    /\ ev.call = "into_initial_sighash_auth" =>
           /\ out.kind = ev.input.kind
           /\ out.origin.kind = ev.input.origin.kind
           /\ out.origin.hash_mode = ev.input.origin.hash_mode
           /\ out.origin.signer = ev.input.origin.signer
           /\ out.origin.nonce = 0
           /\ out.origin.fee_rate = 0
           /\ IF out.origin.kind = "Singlesig"
              THEN out.origin.signature = MessageSignature_empty
              ELSE out.origin.fields = << >>
           /\ out.kind = "Sponsored" =>
                  /\ out.sponsor.kind = "Singlesig"
                  /\ out.sponsor.hash_mode = "P2PKH"
                  /\ out.sponsor.signer = Hash160_of(0)
                  /\ out.sponsor.nonce = 0
                  /\ out.sponsor.fee_rate = 0
                  /\ out.sponsor.signature = MessageSignature_empty
           /\ \A other \in SighashAuths :
                  SameCommitment(other, ev.input) =>
                      into_initial_sighash_auth(other) = out
    /\ ev.call = "again" => out = ev.once

\* a sponsored auth with a signed multisig origin and a signed sponsor was
\* turned into its initial-sighash auth, twice
C31_Witness ==
    /\ ev.call = "again"
    /\ ev.input.kind = "Sponsored"
    /\ ev.input.origin.kind = "Multisig"
    /\ ev.input.origin.fields # << >>
    /\ ev.input.origin.nonce # 0
    /\ ev.input.sponsor # new_initial_sighash
    /\ ev.input.sponsor.nonce # 0
    /\ out.sponsor = new_initial_sighash

(***************************************************************************)
(* How the signer leaves Idle.                                             *)
(***************************************************************************)
\* this signer, as coordinator, takes the head of the queue and starts it
StartsCommand ==
    /\ ev'.call = "process_next_command"
    /\ coordinator_selector.coordinator_id = signer_id
    /\ commands # << >>
    /\ ev'.command = Some(Head(commands))
    /\ commands' = Tail(commands)
    /\ ev'.started

\* the packets handle_packets is called with by the event being processed
PacketsHandled ==
    IF ev'.call # "process_event" THEN << >>
    ELSE IF ev'.event.type = "SignerMessages"
    THEN IF ev'.event.signer_set # get_signer_set THEN << >>
         ELSE verify_packets(Self, ev'.event.messages, << >>).packets
    ELSE IF ev'.event.type = "BlockValidationResponse"
    THEN LET found == block_lookup(signer_db, ev'.event.response.signer_signature_hash)
         IN  IF found # None /\ IsSome(Unwrap(found).nonce_request)
             THEN << Unwrap(found).nonce_request >>
             ELSE << >>
    ELSE << >>

\* a packet batch is handled that ends no operation and leaves the library
\* coordinator in the middle of one
HandlesPacketsMidOperation ==
    /\ PacketsHandled # << >>
    /\ ev'.results = << >>
    /\ coordinator'.state # "Idle"

\* C32 as stated: the state goes from Idle to OperationInProgress only when
\* this signer as coordinator dequeues and starts a command; a packet batch
\* refreshes the timer of a signer in OperationInProgress and never moves an
\* Idle signer to OperationInProgress.
C32_IdleLeftOnlyByCommand ==
    [][/\ state = "Idle" /\ state' = "OperationInProgress" => StartsCommand
       /\ state = "OperationInProgress" /\ HandlesPacketsMidOperation =>
              /\ state' = "OperationInProgress"
              /\ coordinator_selector'.last_message_time = Some("now")]_vars

\* C32: the state goes from Idle to OperationInProgress only when this signer
\* as coordinator dequeues and starts a command, or when a packet batch is
\* handled that ends no operation and leaves the coordinator state machine
\* not idle; such a batch refreshes the timer of a signer that is already in
\* OperationInProgress.
C32_IdleLeftByCommandOrPackets ==
    [][/\ state = "Idle" /\ state' = "OperationInProgress" =>
              StartsCommand \/ HandlesPacketsMidOperation
       /\ state = "OperationInProgress" /\ HandlesPacketsMidOperation =>
              /\ state' = "OperationInProgress"
              /\ coordinator_selector'.last_message_time = Some("now")]_vars

\* an idle signer that is not the coordinator was moved to
\* OperationInProgress by a packet batch
C32_Witness ==
    /\ ev.call = "process_event"
    /\ ev.event.type = "SignerMessages"
    /\ ev.results = << >>
    /\ coordinator_selector.coordinator_id # signer_id
    /\ state = "OperationInProgress"
    /\ coordinator.state # "Idle"
    /\ coordinator_selector.last_message_time = Some("now")
    /\ commands = << >>

(***************************************************************************)
(* Persisting before broadcasting.                                         *)
(***************************************************************************)
\* the messages about block h: its rejections and responses, and the packets
\* that answer its nonce request
Concerns(m, h) ==
    IF m.kind \in {"BlockRejection", "BlockResponse"} THEN m.signer_signature_hash = h
    ELSE m.kind = "Packet"

\* C33: while handling a BlockValidationResponse for a cached block, the
\* BlockInfo with its updated valid flag is in the store before any rejection
\* or packet concerning the block is sent to the bus.
C33_PersistedBeforeBroadcast ==
    ev.call = "process_event" /\ ev.event.type = "BlockValidationResponse"
    => LET h == ev.event.response.signer_signature_hash
       IN  \A i \in DOMAIN out.stackerdb :
               Concerns(out.stackerdb[i], h) =>
                   /\ Cached(out.store_at_send[i], h)
                   /\ Cached(signer_db, h) =>
                          Stored(out.store_at_send[i], h).valid = Stored(signer_db, h).valid

(***************************************************************************)
(* Commands that are given up.                                             *)
(***************************************************************************)
\* process_next_command takes the head of the queue
Dequeues ==
    /\ ev'.call = "process_next_command"
    /\ state = "Idle"
    /\ coordinator_selector.coordinator_id = signer_id
    /\ commands # << >>

\* the command taken is given up: a Dkg with a key approved, without an answer
\* about the last round or with a round that does not start; a Sign without a
\* key, over a block signed over already or with a round that does not start
Aborts ==
    /\ Dequeues
    /\ LET command == Head(commands)
       IN  IF command.type = "Dkg"
           THEN \/ IsSome(approved_aggregate_public_key)
                \/ ev'.last_round[1] = "Err"
                \/ ~ev'.started
           ELSE \/ approved_aggregate_public_key = None
                \/ UnwrapOr(block_lookup(signer_db, signer_signature_hash(command.block)),
                            BlockInfo_new(command.block)).signed_over
                \/ ~ev'.started

\* C34: a dequeued command that is aborted is removed from the queue and not
\* queued again, sends nothing and leaves the signer Idle, so that the next
\* command is the head of the queue on the following call.
C34_AbortedCommandIsDropped ==
    [][Aborts => /\ commands' = Tail(commands)
                 /\ state' = "Idle"
                 /\ out'.stackerdb = << >>
                 /\ signer_db' = signer_db]_vars

\* a Dkg command was given up because the round did not start, and the Sign
\* command behind it is now the head of the queue of the idle coordinator
C34_Witness ==
    /\ ev.call = "process_next_command"
    /\ ev.command = Some(Dkg)
    /\ ev.last_round[1] = "Ok"
    /\ ~ev.started
    /\ approved_aggregate_public_key = None
    /\ state = "Idle"
    /\ coordinator_selector.coordinator_id = signer_id
    /\ commands # << >>
    /\ Head(commands).type = "Sign"

\* a Sign command over a block that is signed over already was given up
C34_WitnessSign ==
    /\ ev.call = "process_next_command"
    /\ ev.command # None
    /\ Unwrap(ev.command).type = "Sign"
    /\ ev.started
    /\ IsSome(approved_aggregate_public_key)
    /\ state = "Idle"
    /\ out.stackerdb = << >>

(***************************************************************************)
(* Signing rounds that end with an error.                                  *)
(***************************************************************************)
\* the block a sign error over this message is about: the block the message
\* decodes as, or the cached block the vote it decodes as is for
BlockOfSignError(message) ==
    IF read_next_block(message) # None THEN read_next_block(message)
    ELSE IF read_next_vote(message) = None THEN None
    ELSE LET h == Unwrap(read_next_vote(message)).signer_signature_hash
         IN  IF Cached(signer_db, h) THEN Some(Stored(signer_db, h).block) ELSE None

\* C35: when a signing round ends with a SignError and the coordinator's
\* message decodes as a block, or as a vote for a cached block, a
\* BlockRejection with that block's signer signature hash and the reject
\* code of the error is sent to the bus; nothing is sent only when the
\* message is neither.
C35_SignErrorIsBroadcast ==
    /\ ev.call = "process_event"
    /\ Len(ev.results) = 1
    /\ ev.results[1].type = "SignError"
    => LET block == BlockOfSignError(ev.results[1].message)
       IN  IF block = None THEN Rejections({"SignError"}) = {}
           ELSE Rejections({"SignError"})
                    = {BlockRejection(signer_signature_hash(Unwrap(block)),
                                      << "SignError" >>)}

(***************************************************************************)
(* The fixed-point arithmetic of the sortition ranges.                     *)
(***************************************************************************)
\* burns_1 + ... + burns_i
CumulativeBurns(sample, i) == SumBurns(SubSeq(sample, 1, i))

\* C36: in a distribution of two or more samples whose total burn is positive
\* and below 2^64 - 1, every range_end is floor(U256::MAX * (burns up to and
\* including the sample) / total) and every range_start is the range_end of
\* the sample before (0 for the first); the product fits in 512 bits and the
\* quotient in 256 bits.
C36_RangeEndsAreScaledCumulativeBurns ==
    LET sample == out.burn_sample
        total == SumBurns(sample)
    IN  /\ Distributed
        /\ Len(sample) >= 2
        /\ total > 0
        /\ total < 2 ^ U64Bits - 1
        => \A i \in DOMAIN sample :
               /\ sample[i].range_end
                      = (Uint256_max * CumulativeBurns(sample, i)) \div total
               /\ sample[i].range_start
                      = IF i = 1 THEN 0 ELSE sample[i - 1].range_end
               /\ Uint256_max * CumulativeBurns(sample, i) < 2 ^ (2 * U256Bits)
               /\ (Uint256_max * CumulativeBurns(sample, i)) \div total <= Uint256_max

\* three samples whose shares are not whole: the product of the second does
\* not fit in 256 bits and its quotient is rounded down
C36_Witness ==
    LET sample == out.burn_sample
    IN  /\ Distributed
        /\ Len(sample) = 3
        /\ SumBurns(sample) < 2 ^ U64Bits - 1
        /\ Uint256_max * CumulativeBurns(sample, 2) >= 2 ^ U256Bits
        /\ (Uint256_max * CumulativeBurns(sample, 2)) % SumBurns(sample) # 0
        /\ sample[2].range_end \notin {0, sample[1].range_end, Uint256_max}

(***************************************************************************)
(* The vote recorded for a block.                                          *)
(***************************************************************************)
RecordedVote(db, h) == IF Cached(db, h) THEN Stored(db, h).vote ELSE None

\* the votes for h among the packets this step hands to the signing round
ForwardedVotes(h) ==
    IF out'.signing_round = None THEN {}
    ELSE {Unwrap(read_next_vote(Forwarded[i].msg.message)) :
             i \in {j \in DOMAIN Forwarded :
                       /\ read_next_vote(Forwarded[j].msg.message) # None
                       /\ Unwrap(read_next_vote(Forwarded[j].msg.message))
                              .signer_signature_hash = h}}

\* the step handles a nonce request over the block with hash h
HandlesNonceRequestFor(h) ==
    /\ HandlesOwnMessages
    /\ \E i \in DOMAIN ev'.event.messages :
           LET m == ev'.event.messages[i]
           IN  /\ IsRequest(m, "NonceRequest")
               /\ read_next_block(m.packet.msg.message) # None
               /\ signer_signature_hash(Unwrap(read_next_block(m.packet.msg.message))) = h

\* C37 as stated: once a stored BlockInfo holds a vote for a hash, no step
\* records or forwards a vote with another rejected flag for that hash.
C37_RecordedVoteNeverChanges ==
    [][\A h \in Hashes :
           RecordedVote(signer_db, h) # None =>
               /\ RecordedVote(signer_db', h) # None =>
                      Unwrap(RecordedVote(signer_db', h)).rejected
                          = Unwrap(RecordedVote(signer_db, h)).rejected
               /\ \A v \in ForwardedVotes(h) :
                      v.rejected = Unwrap(RecordedVote(signer_db, h)).rejected]_vars

\* C37: once a stored BlockInfo holds a vote for a hash, a step records a
\* vote with another rejected flag for that hash only when it handles a nonce
\* request for the block and the recorded flag no longer is the negation of
\* the block's valid flag, and the vote then recorded is; a vote forwarded
\* for the hash is the one recorded before or after the step.
C37_RecordedVoteFollowsValidFlag ==
    [][\A h \in Hashes :
           RecordedVote(signer_db, h) # None =>
               /\ (/\ RecordedVote(signer_db', h) # None
                   /\ Unwrap(RecordedVote(signer_db', h)).rejected
                          # Unwrap(RecordedVote(signer_db, h)).rejected)
                  => /\ HandlesNonceRequestFor(h)
                     /\ Stored(signer_db', h).valid = Stored(signer_db, h).valid
                     /\ Unwrap(RecordedVote(signer_db', h)).rejected
                            = ~UnwrapOr(Stored(signer_db, h).valid, FALSE)
               /\ \A v \in ForwardedVotes(h) :
                      \/ Some(v) = RecordedVote(signer_db, h)
                      \/ Some(v) = RecordedVote(signer_db', h)]_vars

\* a batch with a signature share request and a nonce request for B1, whose
\* accepting vote was recorded before the node rejected the block: the share
\* request went on with the accepting vote, the nonce request with the
\* rejecting vote that is now recorded
C37_Witness ==
    /\ Handled("SignerMessages")
    /\ out.signing_round
           = Some(<< Packet("SignatureShareRequest", VoteBytes("B1", FALSE), TRUE),
                     Packet("NonceRequest", VoteBytes("B1", TRUE), TRUE) >>)
    /\ RecordedVote(signer_db, h1) = Some(BlockVote(h1, TRUE))
    /\ Stored(signer_db, h1).valid = Some(FALSE)


(***************************************************************************)
(* Signing rounds per block.                                               *)
(***************************************************************************)
\* C38: as coordinator, the signer starts at most one signing round per block
\* signer-signature-hash over any sequence of events and commands, also when
\* several Sign commands for the same block are queued and when the block is
\* proposed or validated more than once.
C38_AtMostOneSigningRoundPerBlock == ev.sign_rounds <= 1


(***************************************************************************)
(* The Dkg command in the queue.                                           *)
(***************************************************************************)
\* a queue holds no Dkg command behind its head, so at most one
DkgOnlyAtHead(queue) == \A i \in DOMAIN queue : queue[i] = Dkg => i = 1

\* update_dkg puts a Dkg command in the queue
AddsDkg ==
    /\ ev'.call = "update_dkg"
    /\ commands' # commands

\* C39: no call of update_dkg, event or command execution puts a second Dkg
\* command in the queue or one behind its head; update_dkg adds a Dkg command
\* only while this signer is the coordinator, is Idle, has no approved
\* aggregate key, has no pending vote transaction in its bus slot and no
\* recorded vote for the current round and reward cycle.
C39_OneDkgCommandAtHead ==
    [][/\ (ev'.call # "queue_command" /\ DkgOnlyAtHead(commands))
          => DkgOnlyAtHead(commands')
       /\ AddsDkg =>
            /\ commands' = << Dkg >> \o commands
            /\ coordinator_selector.coordinator_id = signer_id
            /\ state = "Idle"
            /\ approved_aggregate_public_key' = None
            /\ ~pending_vote(Self, ev'.aggregate_public_key, ev'.old_transactions)
            /\ ev'.voted = "None"]_vars

\* update_dkg has put a Dkg command in front of a queued Sign command, with a
\* vote of another round in the bus slot
C39_Witness ==
    /\ ev.call = "update_dkg"
    /\ Len(commands) = 2
    /\ commands[1] = Dkg
    /\ commands[2].type = "Sign"
    /\ ev.old_transactions # << >>
    /\ ev.voted = "None"
    /\ approved_aggregate_public_key = None
    /\ state = "Idle"


(***************************************************************************)
(* Two signers on one store.                                               *)
(***************************************************************************)
BlockInfoFields == {"vote", "valid", "nonce_request", "signed_over"}

\* signer i, in a handler, writes the entry of B1 and puts a field back to
\* what it was when i last read or wrote the entry, though it was written
\* since
OverwritesNewer(i) ==
    /\ ev[i].pc # "idle"
    /\ ev'[i] # ev[i]
    /\ LET cur == block_lookup(signer_db, h1)
           new == block_lookup(signer_db', h1)
           seen == UnwrapOr(ev[i].seen, BlockInfo_new("B1"))
       IN  /\ cur # None
           /\ new # None
           /\ \E f \in BlockInfoFields :
                /\ Unwrap(new)[f] # Unwrap(cur)[f]
                /\ Unwrap(new)[f] = seen[f]

\* C40: when two signers for different reward cycles share one store and
\* their handlers interleave, no signer's write of a BlockInfo overwrites a
\* field the other has written since the writer read the entry.
C40_NoLostUpdate == [][\A i \in Instances : ~OverwritesNewer(i)]_vars

====
